---- MODULE Spec2Model ----
(***************************************************************************)
(* Model of the asynchronous analysis job layer of AlphaBot's frontend:    *)
(*   - AsyncAIAnalysis, the single-job tracker (a React component):        *)
(*     its state, its two effects, its handlers and the requests it has in *)
(*     flight, with React's closure semantics (a handler or a timer        *)
(*     callback sees the state of the render that created it);             *)
(*   - chatWithAgentStream, the decoder of the chunked chat response.      *)
(* Strings of the source that are not ASCII are written as tokens; the     *)
(* comment at each token gives the source text.                            *)
(***************************************************************************)
EXTENDS Integers, Sequences, FiniteSets, Bags, TLC

\* ------------------------------------------------------------------ bounds
MaxSubmits  == 2   \* presses of a start button over one behaviour
MaxAuto     == 3   \* starts made by the mount effect over one behaviour
MaxInFlight == 2   \* status requests in flight at one time
MaxTime     == 2   \* the clock Date.now() reads runs from 0 to MaxTime
MaxTtl      == 1   \* the ttl arguments of set are 0..MaxTtl, or omitted
DefaultTTL  == 2   \* _defaultTTL (one hour in the code), in the clock's units
MaxRequests == 2   \* database requests waiting at one time
MaxFrames   == 7   \* events of one streamed chat response
MaxResults  == 2   \* tool_result events among them
MaxBody     == 6   \* characters of a response body
MaxCalls    == 3   \* calls of a cached API wrapper over one behaviour
MaxBatches  == 2   \* batch jobs submitted over one behaviour
MaxBatchPolls == 2 \* status requests of the batch in flight at one time

\* ------------------------------------------------------------- the tracker
VARIABLES
  autoStart,   \* the component's prop (default true, AIAnalysis passes false)
  st,          \* the component's React state (useState cells)
  eff,         \* the dependencies each effect last ran with
  timers,      \* live setInterval timers: [id, job], job = taskId of the closure
  nextTimer,   \* number of timers created so far
  creates,     \* create requests in flight
  nsub,        \* starts by the user so far
  nauto,       \* starts by the mount effect so far
  cancels,     \* cancel requests in flight: [job, pI], what cancelTask's closure holds
  polls,       \* status requests in flight, a bag of [job, pI, fromCancel, snap]
  srv,         \* the server's jobs: job id -> [st, pr]
  termSeen,    \* history: jobs of which a terminal snapshot has been handled
  race,        \* history: cancel() on a polling job, then the next snapshot
  notified     \* the call of onResult or onError made in the last step

\* -------------------------------------------------------------- the decoder
VARIABLES
  body,        \* the bytes of the response body
  pos,         \* bytes already returned by reader.read()
  pending,     \* bytes of an incomplete character held by the TextDecoder
  buffer,      \* chatWithAgentStream's buffer
  events,      \* the messages passed to onMessage, in order
  done,        \* reader.read() has returned done
  failed,      \* reader.read() has rejected: the catch has run
  midSplit     \* history: some read ended inside a line

VARIABLES
  store,       \* the object store 'cache-store': key -> CacheItem or Absent
  now,         \* what Date.now() returns
  queue,       \* the requests to the database, in the order they were made
  ret,         \* what the operation that completed last returned
  goneRead     \* history: keys that a get found expired, not set since

VARIABLES
  chat,        \* AgentChat: its state and the closure of handleStreamingChat
  req,         \* the streamed request: none, fetching, reading, returned
  mounted,     \* AgentChat is mounted
  nframes,     \* events passed to onMessage so far
  hist         \* history of the events: their shape, the results, the error

VARIABLES
  api          \* the call of a cached API wrapper: what it does and returns

VARIABLES
  batch,        \* BatchAnalysis: its state, intervalRef and the last message
  batchTimers,  \* live window.setInterval timers: [id, job]
  batchSubmits, \* batch submissions in flight
  batchPolls,   \* status requests of the batch in flight, a bag of [job, snap]
  batchSrv,     \* the server's batch jobs: job id -> [st, pr]
  batchDownloads \* the jobs whose report has been requested

trackerVars == <<autoStart, st, eff, timers, nextTimer, creates, nsub, nauto, cancels,
                 polls, srv, termSeen, race, notified>>
streamVars  == <<body, pos, pending, buffer, events, done, failed, midSplit>>
cacheVars   == <<store, now, queue, ret, goneRead>>
chatVars    == <<chat, req, mounted, nframes, hist>>
apiVars     == <<api>>
batchVars   ==
  <<batch, batchTimers, batchSubmits, batchPolls, batchSrv, batchDownloads>>
vars        == <<trackerVars, streamVars, cacheVars, chatVars, apiVars, batchVars>>

Null == 0      \* null task id, null timer handle, null result

\* ------------------------------------------------------------------ tokens
ErrStatusFailed   == "status_failed"      \* '获取任务状态时出错' / '获取任务状态失败'
ErrNotFound404    == "resource_not_found" \* '请求的资源不存在'
ErrTaskNotExist   == "task_not_exist"     \* a server error text holding '任务不存在'
ErrJobFailed      == "job_failed"         \* taskData.error || '分析任务失败'
ErrCancelFailed   == "cancel_failed"      \* response.error || '取消任务失败'
ErrRateLimited    == "rate_limited"       \* '请求频率过高，请稍后再试'
ErrCreateFailed   == "create_failed"      \* '创建异步分析任务时出错' / '启动分析失败'

LiveStatus     == {"PENDING", "PROGRESS"}
TerminalStatus == {"SUCCESS", "FAILURE", "REVOKED"}
ProgressValues == {40}
NoProgress     == -1                      \* taskData.progress === undefined

\* ------------------------------------------------- React state and effects
InitialState ==
  [taskId |-> Null, status |-> "idle", progress |-> 0,
   result |-> Null, error |-> "null", pollingInterval |-> Null,
   isCanceling |-> FALSE]

\* A call of the props onResult and onError, and no call.
Call(cb, error, result) == [cb |-> cb, error |-> error, result |-> result]
NoCall == Call("none", "null", Null)

\* The part of the model a handler and the effects that follow it work on.
G == [st |-> st, eff |-> eff, timers |-> timers, nextTimer |-> nextTimer,
      creates |-> creates, nauto |-> nauto, notified |-> NoCall]

\* clearPollingInterval as seen by a closure that holds pollingInterval = pI.
clearPollingInterval(g, pI) ==
  IF pI # Null
    THEN [g EXCEPT !.timers = {t \in @ : t.id # pI},
                   !.st.pollingInterval = Null]
    ELSE g

\* startAnalysis up to its await: the state resets and the create request.
startAnalysisBegin(g) ==
  [g EXCEPT !.st.status = "starting", !.st.error = "null",
            !.st.result = Null, !.st.isCanceling = FALSE,
            !.creates = @ + 1]

\* The dependencies of the polling effect: status, pollingInterval and the
\* identities of checkTaskStatus (taskId, clearPollingInterval) and of
\* clearPollingInterval (pollingInterval); onResult and onError are stable.
PollDeps(s) == <<s.status, s.pollingInterval, s.taskId>>

\* The dependencies of the mount effect: autoStart and startAnalysis are
\* stable, clearPollingInterval changes with pollingInterval.
MountDeps(s) == s.pollingInterval

\* Mutant: the cleanup of the polling effect clears nothing.
PollingEffectCleanupNoop(g) == g

\* Cleanup of the polling effect: the clearPollingInterval of the render the
\* effect last ran in.
PollingEffectCleanup(g) == clearPollingInterval(g, g.eff.poll[2])

\* Body of the polling effect in a render with state r.
PollingEffectBody(g, r) ==
  IF r.status = "polling" /\ r.pollingInterval = Null
    THEN LET id == g.nextTimer + 1
         IN [g EXCEPT !.timers = @ \cup {[id |-> id, job |-> r.taskId]},
                      !.nextTimer = id,
                      !.st.pollingInterval = id]
    ELSE g

MountEffectCleanup(g) == clearPollingInterval(g, g.eff.mount)

MountEffectBody(g) ==
  IF autoStart THEN [startAnalysisBegin(g) EXCEPT !.nauto = @ + 1] ELSE g

\* One render and commit: the effects whose dependencies changed run their
\* cleanups, then their bodies; the state updates they make are batched.
RenderOnce(g) ==
  LET r       == g.st
      pollCh  == PollDeps(r) # g.eff.poll
      mountCh == MountDeps(r) # g.eff.mount
      g1 == IF pollCh THEN PollingEffectCleanup(g) ELSE g
      g2 == IF mountCh THEN MountEffectCleanup(g1) ELSE g1
      g3 == IF pollCh THEN PollingEffectBody(g2, r) ELSE g2
      g4 == IF mountCh THEN MountEffectBody(g3) ELSE g3
  IN [g4 EXCEPT !.eff = [poll |-> PollDeps(r), mount |-> MountDeps(r)]]

\* React renders again until no effect has anything left to do.
RECURSIVE Flush(_)
Flush(g) ==
  IF PollDeps(g.st) = g.eff.poll /\ MountDeps(g.st) = g.eff.mount
    THEN g
    ELSE Flush(RenderOnce(g))

\* The first commit: both effects run their bodies, no cleanup exists yet.
Mounted ==
  LET g0 == [st |-> InitialState,
             eff |-> [poll |-> PollDeps(InitialState),
                      mount |-> MountDeps(InitialState)],
             timers |-> {}, nextTimer |-> 0, creates |-> 0, nauto |-> 0,
             notified |-> NoCall]
  IN Flush(MountEffectBody(PollingEffectBody(g0, InitialState)))

\* A handler's updates are committed, with the effects that follow.
Commit(g) ==
  LET f == Flush(g)
  IN /\ f.nauto <= MaxAuto
     /\ st' = f.st
     /\ eff' = f.eff
     /\ timers' = f.timers
     /\ nextTimer' = f.nextTimer
     /\ creates' = f.creates
     /\ nauto' = f.nauto
     /\ notified' = f.notified

\* ------------------------------------------------------------- the server
Jobs == 1..(MaxSubmits + MaxAuto)

NoSnap == [kind |-> "none", status |-> "", pr |-> NoProgress]

\* What GET /async/ai/task/{id} answers for job j now.  A job the server has
\* no record of is answered with HTTP 404, which the response interceptor
\* turns into {success: false, error: '请求的资源不存在'}, or with a body
\* {success: false, error: '任务不存在'}.
Snapshots(j) ==
  IF srv[j].st = "GONE"
    THEN {[kind |-> "notfound404", status |-> "", pr |-> NoProgress],
          [kind |-> "nojob", status |-> "", pr |-> NoProgress]}
    ELSE {[kind |-> "ok", status |-> srv[j].st, pr |-> srv[j].pr]}

NextJob == Cardinality({j \in Jobs : srv[j].st # "none"}) + 1

\* polls with request p added, removed, replaced by q.
Sent(p)        == polls (+) SetToBag({p})
Settled(p)     == polls (-) SetToBag({p})
\* ----------------------------------------------------------- the handlers
\* checkTaskStatus after its await, in a closure whose clearPollingInterval
\* holds pollingInterval = pI, for the response snap.
\* Mutant: every snapshot is handled as that of a live job.
checkTaskStatusOkLive(g, pI, snap) ==
  [g EXCEPT !.st.progress = IF snap.pr # NoProgress THEN snap.pr ELSE @]

checkTaskStatusOk(g, pI, snap) ==
  LET g1 == [g EXCEPT !.st.progress = IF snap.pr # NoProgress THEN snap.pr ELSE @]
  IN CASE snap.status = "SUCCESS" ->
            [clearPollingInterval(g1, pI) EXCEPT !.st.status = "completed",
                                                 !.st.result = 1,
                                                 !.notified = Call("onResult", "null", 1)]
       [] snap.status = "FAILURE" ->
            [clearPollingInterval(g1, pI) EXCEPT !.st.status = "error",
                                                 !.st.error = ErrJobFailed,
                                                 !.notified = Call("onError", ErrJobFailed, Null)]
       [] snap.status = "REVOKED" ->
            [clearPollingInterval(g1, pI) EXCEPT !.st.status = "canceled",
                                                 !.st.isCanceling = FALSE]
       [] OTHER -> g1

\* The text the failed response carries.
ResponseError(snap) ==
  CASE snap.kind = "notfound404" -> ErrNotFound404
    [] snap.kind = "nojob"       -> ErrTaskNotExist
    [] OTHER                     -> ErrStatusFailed

\* Mutant: every failed status request counts as "no such task".
IncludesAnyText(e) == TRUE

\* response.error?.includes('任务不存在')
IncludesTaskNotExist(e) == e = ErrTaskNotExist

checkTaskStatusFailed(g, pI, snap) ==
  LET e  == ResponseError(snap)
      g1 == [g EXCEPT !.st.error = e]
  IN IF IncludesTaskNotExist(e)
       THEN [clearPollingInterval(g1, pI) EXCEPT !.st.status = "error"]
       ELSE g1

checkTaskStatusResume(g, pI, snap) ==
  IF snap.kind = "ok"
    THEN checkTaskStatusOk(g, pI, snap)
    ELSE checkTaskStatusFailed(g, pI, snap)

\* Mutant: isCanceling is not set before the await.
cancelTaskBeginLate(g) == g

\* cancelTask up to its await.
cancelTaskBegin(g) == [g EXCEPT !.st.isCanceling = TRUE]

\* cancelTask's finally block.
cancelTaskFinally(g) == [g EXCEPT !.st.isCanceling = FALSE]

\* cancelTask after its await when the response has success = true.
cancelTaskAcked(g, pI) ==
  cancelTaskFinally([clearPollingInterval(g, pI) EXCEPT
                       !.st.status = "canceled"])

\* cancelTask after its await when the response has success = false, up to
\* the await of checkTaskStatus.
cancelTaskRefused(g) ==
  [g EXCEPT !.st.error = ErrCancelFailed]

\* startAnalysis after its await.
startAnalysisCreated(g, job) ==
  [g EXCEPT !.st.taskId = job, !.st.status = "polling"]

startAnalysisRejected(g, e) ==
  [g EXCEPT !.st.error = e, !.st.status = "error",
            !.notified = Call("onError", e, Null)]

\* ------------------------------------------------------------- the actions
\* Mutant: the start button is shown to an idle tracker only.
StartClickIdleOnly ==
  /\ st.status = "idle"
  /\ nsub < MaxSubmits
  /\ nsub' = nsub + 1
  /\ Commit(startAnalysisBegin(G))
  /\ race' = "none"
  /\ UNCHANGED <<autoStart, cancels, polls, srv, termSeen>>

\* The user presses a start button (shown when idle, in error, canceled).
StartClick ==
  /\ st.status \in {"idle", "error", "canceled"}
  /\ nsub < MaxSubmits
  /\ nsub' = nsub + 1
  /\ Commit(startAnalysisBegin(G))
  /\ race' = "none"
  /\ UNCHANGED <<autoStart, cancels, polls, srv, termSeen>>

\* POST /async/ai/analyze is answered: the server admits the job.
CreateOk ==
  /\ creates > 0
  /\ NextJob \in Jobs
  /\ Commit(startAnalysisCreated([G EXCEPT !.creates = @ - 1], NextJob))
  /\ srv' = [srv EXCEPT ![NextJob] = [st |-> "PENDING", pr |-> NoProgress]]
  /\ race' = "none"
  /\ UNCHANGED <<autoStart, nsub, cancels, polls, termSeen>>

\* ... or rejects it (429), or the request fails.
CreateFail ==
  /\ creates > 0
  /\ \E e \in {ErrRateLimited, ErrCreateFailed} :
       Commit(startAnalysisRejected([G EXCEPT !.creates = @ - 1], e))
  /\ race' = "none"
  /\ UNCHANGED <<autoStart, nsub, cancels, polls, srv, termSeen>>

\* The user presses the cancel button (shown while starting and polling,
\* disabled while isCanceling); cancelTask up to its await.
CancelClick ==
  /\ st.status \in {"starting", "polling"}
  /\ ~st.isCanceling
  /\ st.taskId # Null
  /\ [job |-> st.taskId, pI |-> st.pollingInterval] \notin cancels
  /\ cancels' = cancels \cup {[job |-> st.taskId, pI |-> st.pollingInterval]}
  /\ Commit(cancelTaskBegin(G))
  /\ race' = IF st.status = "polling" THEN "called" ELSE race
  /\ UNCHANGED <<autoStart, nsub, polls, srv, termSeen>>

\* DELETE /async/ai/task/{id} is answered with success = true.
CancelAck(c) ==
  /\ cancels' = cancels \ {c}
  /\ Commit(cancelTaskAcked(G, c.pI))
  /\ UNCHANGED <<autoStart, nsub, polls, srv, termSeen, race>>

\* ... or with success = false, or it fails: cancelTask calls checkTaskStatus.
CancelRefuse(c) ==
  /\ BagCardinality(polls) < MaxInFlight
  /\ cancels' = cancels \ {c}
  /\ polls' = Sent([job |-> c.job, pI |-> c.pI, fromCancel |-> TRUE,
                    snap |-> NoSnap])
  /\ Commit(cancelTaskRefused(G))
  /\ UNCHANGED <<autoStart, nsub, srv, termSeen, race>>

\* An interval timer fires: checkTaskStatus of the render that created the
\* timer, up to its await.  That render had pollingInterval = null.
Tick(t) ==
  /\ BagCardinality(polls) < MaxInFlight
  /\ polls' = Sent([job |-> t.job, pI |-> Null, fromCancel |-> FALSE,
                    snap |-> NoSnap])
  /\ notified' = NoCall
  /\ UNCHANGED <<autoStart, st, eff, timers, nextTimer, creates, nsub, nauto, cancels,
                 srv, termSeen, race>>

\* The server answers a status request.
\* Mutant: reading the status of a finished job makes the server forget it.
TaskStatusConsumed(j) ==
  srv' = IF srv[j].st \in TerminalStatus
           THEN [srv EXCEPT ![j] = [st |-> "GONE", pr |-> NoProgress]]
           ELSE srv

\* What GET /async/ai/task/{id} does to the jobs of the server: nothing.
TaskStatusRead(j) == srv' = srv

ServerAnswer(p) ==
  /\ p.snap.kind = "none"
  /\ \E s \in Snapshots(p.job) :
       polls' = Settled(p) (+) SetToBag({[p EXCEPT !.snap = s]})
  /\ TaskStatusRead(p.job)
  /\ notified' = NoCall
  /\ UNCHANGED <<autoStart, st, eff, timers, nextTimer, creates, nsub, nauto, cancels,
                 termSeen, race>>

RaceAfter(p, snap) ==
  IF race = "called" /\ p.job = st.taskId
    THEN (IF snap.kind = "ok" /\ snap.status = "SUCCESS" THEN "success" ELSE "none")
    ELSE race

\* checkTaskStatus resumes with the response snap of request p; when
\* cancelTask awaited it, cancelTask's finally block follows.
Resume(p, snap) ==
  LET g1 == checkTaskStatusResume(G, p.pI, snap)
      g2 == IF p.fromCancel THEN cancelTaskFinally(g1) ELSE g1
  IN /\ polls' = Settled(p)
     /\ Commit(g2)
     /\ termSeen' = IF snap.kind = "ok" /\ snap.status \in TerminalStatus
                      THEN termSeen \cup {p.job} ELSE termSeen
     /\ race' = RaceAfter(p, snap)
     /\ UNCHANGED <<autoStart, nsub, cancels, srv>>

\* The answer arrives.
PollResponse(p) ==
  /\ p.snap.kind # "none"
  /\ Resume(p, p.snap)

\* The request fails (network error, timeout, HTTP 5xx): getAsyncTaskStatus
\* catches and returns {success: false, error: '获取任务状态时出错'}.
PollNetworkError(p) ==
  /\ p.snap.kind = "none"
  /\ Resume(p, [kind |-> "neterr", status |-> "", pr |-> NoProgress])

\* The remote worker moves a job on; the client never writes to it.
ServerStep(j) ==
  /\ srv[j].st \in LiveStatus
  /\ \/ /\ \E q \in ProgressValues :
             /\ q > srv[j].pr
             /\ srv' = [srv EXCEPT ![j] = [st |-> "PROGRESS", pr |-> q]]
     \/ \E t \in TerminalStatus :
          srv' = [srv EXCEPT ![j] = [st |-> t, pr |-> NoProgress]]
  /\ notified' = NoCall
  /\ UNCHANGED <<autoStart, st, eff, timers, nextTimer, creates, nsub, nauto, cancels,
                 polls, termSeen, race>>

\* The server expires a job: it has no record of it any more.
ServerExpire(j) ==
  /\ srv[j].st \notin {"none", "GONE"}
  /\ srv' = [srv EXCEPT ![j] = [st |-> "GONE", pr |-> NoProgress]]
  /\ notified' = NoCall
  /\ UNCHANGED <<autoStart, st, eff, timers, nextTimer, creates, nsub, nauto, cancels,
                 polls, termSeen, race>>

\* The cache before any operation: an empty store at time 0.
Keys   == {"k1", "k2"}
Absent == "absent"      \* the null that get returns
NoEntry ==              \* the undefined that db.get returns
  [value |-> Absent, expireTime |-> 0, lastAccessed |-> 0]
NoRet  == [f |-> "none"]

CacheIdle ==
  /\ store = [k \in Keys |-> NoEntry]
  /\ now = 0 /\ queue = <<>> /\ ret = NoRet /\ goneRead = {}

\* AgentChat before a message is sent.
NoError == [from |-> "none", statusText |-> "", detail |-> ""]
NoText  == [text |-> "", error |-> NoError]
NoBody  == [kind |-> "none", error |-> "", text |-> ""]
NoHist  == [shape |-> "idle", got |-> <<>>, said |-> NoText, err |-> NoError,
            body |-> NoBody]

ChatIdle ==
  /\ chat = [content |-> NoText, attached |-> FALSE, toolOutputs |-> <<>>,
             streamingMessage |-> "", currentStreamingMessage |-> FALSE,
             currentSession |-> "null", isLoading |-> FALSE]
  /\ req = "none" /\ mounted = TRUE /\ nframes = 0 /\ hist = NoHist

\* No cached API wrapper has been called.
NoApi ==
  [fn |-> "none", phase |-> "idle", forceRefresh |-> FALSE, data |-> "none",
   result |-> "none", fromCache |-> FALSE, calls |-> 0, requests |-> 0]

ApiIdle == api = NoApi

\* BatchAnalysis before a batch is submitted.
BatchJobs == 1..MaxBatches

BatchInitial ==
  [taskId |-> Null, status |-> "", progress |-> 0, loading |-> FALSE,
   intervalRef |-> Null, message |-> "none", mounted |-> TRUE]

BatchIdle ==
  /\ batch = BatchInitial
  /\ batchTimers = {} /\ batchSubmits = 0 /\ batchPolls = EmptyBag
  /\ batchSrv = [j \in BatchJobs |-> [st |-> "none", pr |-> NoProgress]]
  /\ batchDownloads = {}

StreamIdle ==
  /\ body = <<>> /\ pos = 0 /\ pending = <<>> /\ buffer = <<>>
  /\ events = <<>> /\ done = FALSE /\ failed = FALSE /\ midSplit = FALSE

\* Mutant: a step of the job API stores what it got under a cache key.
JobApiCached ==
  /\ store' = [store EXCEPT !["k1"] =
                 [value |-> "v1", expireTime |-> now + DefaultTTL,
                  lastAccessed |-> now]]
  /\ UNCHANGED <<now, queue, ret, goneRead>>

\* createAsyncAITask, getAsyncTaskStatus, cancelAsyncTask and the tracker
\* that calls them make no call of indexedDBCache.
JobApiCache == UNCHANGED cacheVars

Init ==
  /\ autoStart \in BOOLEAN
  /\ st = Mounted.st
  /\ eff = Mounted.eff
  /\ timers = Mounted.timers
  /\ nextTimer = Mounted.nextTimer
  /\ creates = Mounted.creates
  /\ nsub = 0
  /\ nauto = Mounted.nauto
  /\ cancels = {}
  /\ polls = EmptyBag
  /\ srv = [j \in Jobs |-> [st |-> "none", pr |-> NoProgress]]
  /\ termSeen = {}
  /\ race = "none"
  /\ notified = NoCall
  /\ StreamIdle
  /\ CacheIdle
  /\ ChatIdle
  /\ ApiIdle
  /\ BatchIdle

Next ==
  \/ StartClick /\ JobApiCache /\ UNCHANGED <<streamVars, chatVars, apiVars, batchVars>>
  \/ CreateOk /\ JobApiCache /\ UNCHANGED <<streamVars, chatVars, apiVars, batchVars>>
  \/ CreateFail /\ JobApiCache /\ UNCHANGED <<streamVars, chatVars, apiVars, batchVars>>
  \/ CancelClick /\ JobApiCache /\ UNCHANGED <<streamVars, chatVars, apiVars, batchVars>>
  \/ \E c \in cancels : CancelAck(c) /\ JobApiCache /\ UNCHANGED <<streamVars, chatVars, apiVars, batchVars>>
  \/ \E c \in cancels : CancelRefuse(c) /\ JobApiCache /\ UNCHANGED <<streamVars, chatVars, apiVars, batchVars>>
  \/ \E t \in timers : Tick(t) /\ JobApiCache /\ UNCHANGED <<streamVars, chatVars, apiVars, batchVars>>
  \/ \E p \in BagToSet(polls) : ServerAnswer(p) /\ JobApiCache /\ UNCHANGED <<streamVars, chatVars, apiVars, batchVars>>
  \/ \E p \in BagToSet(polls) : PollResponse(p) /\ JobApiCache /\ UNCHANGED <<streamVars, chatVars, apiVars, batchVars>>
  \/ \E p \in BagToSet(polls) : PollNetworkError(p) /\ JobApiCache /\ UNCHANGED <<streamVars, chatVars, apiVars, batchVars>>
  \/ \E j \in Jobs : ServerStep(j) /\ JobApiCache /\ UNCHANGED <<streamVars, chatVars, apiVars, batchVars>>
  \/ \E j \in Jobs : ServerExpire(j) /\ JobApiCache /\ UNCHANGED <<streamVars, chatVars, apiVars, batchVars>>

Spec == Init /\ [][Next]_vars

\* The tracker of a user who never cancels, on a network that loses no
\* request, with the scheduling the event loop gives: a live timer keeps
\* firing, a request in flight is answered and its answer is delivered.
FairNext ==
  \/ StartClick /\ JobApiCache /\ UNCHANGED <<streamVars, chatVars, apiVars, batchVars>>
  \/ CreateOk /\ JobApiCache /\ UNCHANGED <<streamVars, chatVars, apiVars, batchVars>>
  \/ CreateFail /\ JobApiCache /\ UNCHANGED <<streamVars, chatVars, apiVars, batchVars>>
  \/ \E t \in timers : Tick(t) /\ JobApiCache /\ UNCHANGED <<streamVars, chatVars, apiVars, batchVars>>
  \/ \E p \in BagToSet(polls) : ServerAnswer(p) /\ JobApiCache /\ UNCHANGED <<streamVars, chatVars, apiVars, batchVars>>
  \/ \E p \in BagToSet(polls) : PollResponse(p) /\ JobApiCache /\ UNCHANGED <<streamVars, chatVars, apiVars, batchVars>>
  \/ \E j \in Jobs : ServerStep(j) /\ JobApiCache /\ UNCHANGED <<streamVars, chatVars, apiVars, batchVars>>
  \/ \E j \in Jobs : ServerExpire(j) /\ JobApiCache /\ UNCHANGED <<streamVars, chatVars, apiVars, batchVars>>

FairSpec ==
  /\ Init
  /\ [][FairNext]_vars
  /\ WF_vars(\E t \in timers : Tick(t) /\ JobApiCache /\ UNCHANGED <<streamVars, chatVars, apiVars, batchVars>>)
  /\ WF_vars(\E p \in BagToSet(polls) : ServerAnswer(p) /\ JobApiCache /\ UNCHANGED <<streamVars, chatVars, apiVars, batchVars>>)
  /\ WF_vars(\E p \in BagToSet(polls) : PollResponse(p) /\ JobApiCache /\ UNCHANGED <<streamVars, chatVars, apiVars, batchVars>>)

\* ----------------------------------------------------------- the decoder
\* Characters: "a" and "E" can make up a JSON text, "x" cannot, "SP" is
\* white space, "NL" is the newline.  "E" takes two bytes in UTF-8, E1 E2,
\* every other character one byte, written like the character.
Chars     == {"a", "E", "x", "SP", "NL"}
JsonChars == {"a", "E"}
Repl      == "FFFD"   \* U+FFFD, what the decoder emits for a malformed sequence

Utf8(c) == IF c = "E" THEN <<"E1", "E2">> ELSE <<c>>

RECURSIVE Encode(_)
Encode(cs) == IF cs = <<>> THEN <<>> ELSE Utf8(Head(cs)) \o Encode(Tail(cs))

\* TextDecoder: the characters of the bytes bs, and the incomplete sequence
\* at their end.
RECURSIVE Utf8Decode(_)
Utf8Decode(bs) ==
  IF bs = <<>> THEN [out |-> <<>>, rest |-> <<>>]
  ELSE IF Head(bs) = "E1" THEN
         IF Len(bs) = 1 THEN [out |-> <<>>, rest |-> bs]
         ELSE IF bs[2] = "E2"
           THEN LET d == Utf8Decode(Tail(Tail(bs)))
                IN [out |-> <<"E">> \o d.out, rest |-> d.rest]
           ELSE LET d == Utf8Decode(Tail(bs))
                IN [out |-> <<Repl>> \o d.out, rest |-> d.rest]
  ELSE IF Head(bs) = "E2" THEN
         LET d == Utf8Decode(Tail(bs))
         IN [out |-> <<Repl>> \o d.out, rest |-> d.rest]
  ELSE LET d == Utf8Decode(Tail(bs))
       IN [out |-> <<Head(bs)>> \o d.out, rest |-> d.rest]

\* Mutant: decoder.decode(value) without stream: nothing is held, an
\* incomplete sequence at the end of the chunk is emitted as U+FFFD.
DecodeNoStream(held, value) ==
  LET d == Utf8Decode(value)
  IN [out |-> d.out \o (IF d.rest # <<>> THEN <<Repl>> ELSE <<>>), rest |-> <<>>]

\* decoder.decode(value, { stream: true }) with the bytes held so far.
DecodeStream(held, value) == Utf8Decode(held \o value)

\* buffer.split('\n'): the segments between the newlines, one more than
\* there are newlines.
RECURSIVE Split(_)
Split(cs) ==
  IF \A i \in 1..Len(cs) : cs[i] # "NL" THEN <<cs>>
  ELSE LET k == CHOOSE i \in 1..Len(cs) :
                  cs[i] = "NL" /\ \A h \in 1..(i - 1) : cs[h] # "NL"
       IN <<SubSeq(cs, 1, k - 1)>> \o Split(SubSeq(cs, k + 1, Len(cs)))

\* line.trim()
RECURSIVE TrimLeft(_)
TrimLeft(cs) ==
  IF cs # <<>> /\ Head(cs) = "SP" THEN TrimLeft(Tail(cs)) ELSE cs
RECURSIVE TrimRight(_)
TrimRight(cs) ==
  IF cs # <<>> /\ cs[Len(cs)] = "SP"
    THEN TrimRight(SubSeq(cs, 1, Len(cs) - 1)) ELSE cs
Trim(cs) == TrimRight(TrimLeft(cs))

\* JSON.parse(line) returns a value / throws.  White space around the text
\* is allowed; the value is the text.
JsonOk(line) ==
  /\ Trim(line) # <<>>
  /\ \A i \in 1..Len(Trim(line)) : Trim(line)[i] \in JsonChars
JsonParse(line) == Trim(line)

\* lines.pop() || ''
KeptTail(segs) == segs[Len(segs)]

\* Mutant: the loop over the lines ends at the first line that does not
\* parse (the exception is not caught per line).
RECURSIVE DispatchUntilBad(_, _)
DispatchUntilBad(evs, lines) ==
  IF lines = <<>> THEN evs
  ELSE IF Trim(Head(lines)) = <<>> THEN DispatchUntilBad(evs, Tail(lines))
  ELSE IF JsonOk(Head(lines))
    THEN DispatchUntilBad(Append(evs, JsonParse(Head(lines))), Tail(lines))
    ELSE evs

\* The for loop over the complete lines: onMessage for each line that is
\* not blank and parses.
RECURSIVE Dispatch(_, _)
Dispatch(evs, lines) ==
  IF lines = <<>> THEN evs
  ELSE LET line == Head(lines)
           evs1 == IF Trim(line) # <<>> /\ JsonOk(line)
                     THEN Append(evs, JsonParse(line)) ELSE evs
       IN Dispatch(evs1, Tail(lines))

\* One pass of the while loop for a read that returned the bytes value.
ReadStep(d, value) ==
  LET dec  == DecodeStream(d.pending, value)
      segs == Split(d.buffer \o dec.out)
  IN [pending |-> dec.rest,
      buffer  |-> KeptTail(segs),
      events  |-> Dispatch(d.events, SubSeq(segs, 1, Len(segs) - 1))]

D == [pending |-> pending, buffer |-> buffer, events |-> events]

RECURSIVE SeqsUpTo(_)
SeqsUpTo(n) ==
  IF n = 0 THEN {<<>>}
  ELSE LET S == SeqsUpTo(n - 1)
       IN S \cup {Append(cs, c) : cs \in {x \in S : Len(x) = n - 1}, c \in Chars}

\* reader.read() returns the next k bytes of the body.
Read(k) ==
  /\ ~done /\ ~failed
  /\ pos + k <= Len(body)
  /\ LET d == ReadStep(D, SubSeq(body, pos + 1, pos + k))
     IN /\ pending' = d.pending
        /\ buffer' = d.buffer
        /\ events' = d.events
  /\ pos' = pos + k
  /\ midSplit' = (midSplit \/ body[pos + k] # "NL")
  /\ UNCHANGED <<body, done, failed>>

\* reader.read() returns done: the loop is left.
ReadDone ==
  /\ ~done /\ ~failed
  /\ pos = Len(body)
  /\ done' = TRUE
  /\ UNCHANGED <<body, pos, pending, buffer, events, failed, midSplit>>

\* The message the catch of chatWithAgentStream passes to onMessage.
ErrorEvent == <<"error">>

\* reader.read() rejects (the connection breaks): the catch passes one
\* error message to onMessage and the function returns.
ReadFail ==
  /\ ~done /\ ~failed
  /\ failed' = TRUE
  /\ events' = Append(events, ErrorEvent)
  /\ UNCHANGED <<body, pos, pending, buffer, done, midSplit>>

TrackerIdle ==
  /\ autoStart = FALSE
  /\ st = InitialState
  /\ eff = [poll |-> PollDeps(InitialState), mount |-> MountDeps(InitialState)]
  /\ timers = {} /\ nextTimer = 0 /\ creates = 0 /\ nsub = 0 /\ nauto = 0
  /\ cancels = {} /\ polls = EmptyBag
  /\ srv = [j \in Jobs |-> [st |-> "none", pr |-> NoProgress]]
  /\ termSeen = {} /\ race = "none" /\ notified = NoCall

StreamInit ==
  /\ TrackerIdle
  /\ CacheIdle
  /\ ChatIdle
  /\ ApiIdle
  /\ BatchIdle
  /\ body \in {Encode(cs) : cs \in SeqsUpTo(MaxBody)}
  /\ pos = 0 /\ pending = <<>> /\ buffer = <<>>
  /\ events = <<>> /\ done = FALSE /\ failed = FALSE /\ midSplit = FALSE

StreamNext ==
  \/ \E k \in 1..(2 * MaxBody) : Read(k) /\ UNCHANGED <<trackerVars, cacheVars, chatVars, apiVars, batchVars>>
  \/ ReadDone /\ UNCHANGED <<trackerVars, cacheVars, chatVars, apiVars, batchVars>>
  \/ ReadFail /\ UNCHANGED <<trackerVars, cacheVars, chatVars, apiVars, batchVars>>

StreamSpec == StreamInit /\ [][StreamNext]_vars

\* ------------------------------------------------ the tracker, progress
\* The tracker of one job whose worker reports its progress in two steps:
\* started by the user, never cancelled, on a network that loses nothing.
FineProgress == {40, 80}

\* The remote worker reports more progress on a live job.
ServerProgress(j) ==
  /\ srv[j].st \in LiveStatus
  /\ \E q \in FineProgress :
       /\ q > srv[j].pr
       /\ srv' = [srv EXCEPT ![j] = [st |-> "PROGRESS", pr |-> q]]
  /\ notified' = NoCall
  /\ UNCHANGED <<autoStart, st, eff, timers, nextTimer, creates, nsub, nauto, cancels,
                 polls, termSeen, race>>

\* The remote worker finishes a job.
ServerFinish(j) ==
  /\ srv[j].st \in LiveStatus
  /\ srv' = [srv EXCEPT ![j] = [st |-> "SUCCESS", pr |-> NoProgress]]
  /\ notified' = NoCall
  /\ UNCHANGED <<autoStart, st, eff, timers, nextTimer, creates, nsub, nauto, cancels,
                 polls, termSeen, race>>

ProgressInit ==
  TrackerIdle /\ StreamIdle /\ CacheIdle /\ ChatIdle /\ ApiIdle /\ BatchIdle

ProgressNext ==
  \/ StartClick /\ JobApiCache /\ UNCHANGED <<streamVars, chatVars, apiVars, batchVars>>
  \/ CreateOk /\ JobApiCache /\ UNCHANGED <<streamVars, chatVars, apiVars, batchVars>>
  \/ \E t \in timers : Tick(t) /\ JobApiCache /\ UNCHANGED <<streamVars, chatVars, apiVars, batchVars>>
  \/ \E p \in BagToSet(polls) : ServerAnswer(p) /\ JobApiCache /\ UNCHANGED <<streamVars, chatVars, apiVars, batchVars>>
  \/ \E p \in BagToSet(polls) : PollResponse(p) /\ JobApiCache /\ UNCHANGED <<streamVars, chatVars, apiVars, batchVars>>
  \/ \E j \in Jobs : ServerProgress(j) /\ JobApiCache /\ UNCHANGED <<streamVars, chatVars, apiVars, batchVars>>
  \/ \E j \in Jobs : ServerFinish(j) /\ JobApiCache /\ UNCHANGED <<streamVars, chatVars, apiVars, batchVars>>

ProgressSpec == ProgressInit /\ [][ProgressNext]_vars

\* ---------------------------------------------------------------- the chat
\* AgentChat.handleStreamingChat and the onMessage callback it passes to
\* chatWithAgentStream.  An event here is a line of the body that the read
\* loop has parsed; the events arrive one by one in the order of the lines.
Message(type, content, session_id, formatted_result, error) ==
  [type |-> type, content |-> content, session_id |-> session_id,
   formatted_result |-> formatted_result, error |-> error]

ErrorOf(from, statusText, detail) ==
  [from |-> from, statusText |-> statusText, detail |-> detail]

\* The events of the protocol.  A tool_result carries tool_name and result;
\* formatted_result is "" when the event has none.
Frames ==
  {Message("start", "", "s1", "", NoError),
   Message("thinking", "t1", "", "", NoError),
   Message("tool_calls", "", "", "", NoError),
   Message("tool_start", "", "", "", NoError),
   Message("end", "", "s1", "", NoError),
   Message("error", "", "", "", ErrorOf("server", "", "e1"))}
  \cup {Message("tool_result", "", "", f, NoError) : f \in {"", "o1", "o2"}}
  \cup {Message("content", c, "s1", "", NoError) : c \in {"c1", "c2"}}

\* The body of a response whose status is not ok: JSON with an error field,
\* JSON without one, text that is not JSON, nothing, or a body that cannot
\* be read.
ErrorBodies ==
  {[kind |-> "json", error |-> "e2", text |-> "j1"],
   [kind |-> "json", error |-> "", text |-> "j2"],
   [kind |-> "text", error |-> "", text |-> "x1"],
   [kind |-> "text", error |-> "", text |-> ""],
   [kind |-> "unreadable", error |-> "", text |-> ""]}
StatusTexts == {"", "st"}

\* detail of chatWithAgentStream: json?.error || text, and response.statusText
\* when response.text() or JSON.parse throws.
Detail(b, statusText) ==
  IF b.kind = "json"
    THEN (IF b.error # "" THEN b.error ELSE b.text)
    ELSE statusText

\* The message of the catch of chatWithAgentStream for a thrown Error.
CaughtMessage(from, statusText, detail) ==
  Message("error", "", "", "", ErrorOf(from, statusText, detail))

\* if (message.formatted_result) toolOutputs.push(message.formatted_result)
Push(toolOutputs, message) ==
  IF message.formatted_result # ""
    THEN Append(toolOutputs, message.formatted_result) ELSE toolOutputs

\* The switch of the onMessage callback, on the state c of the chat.
onMessage(c, message) ==
  CASE message.type = "start" ->
         [c EXCEPT !.currentSession = message.session_id]
    [] message.type = "thinking" ->
         [c EXCEPT !.streamingMessage = message.content]
    [] message.type = "tool_calls" ->
         [c EXCEPT !.streamingMessage = "tool_calls"]
    [] message.type = "tool_start" ->
         [c EXCEPT !.streamingMessage = "tool_start"]
    [] message.type = "tool_result" ->
         [c EXCEPT !.toolOutputs = Push(c.toolOutputs, message),
                   !.streamingMessage = "tool_result"]
    [] message.type = "content" ->
         [c EXCEPT !.currentStreamingMessage = FALSE,
                   !.streamingMessage = "",
                   !.content = [text |-> message.content, error |-> NoError],
                   !.attached = (Len(c.toolOutputs) > 0)]
    [] message.type = "end" ->
         [c EXCEPT !.currentStreamingMessage = FALSE,
                   !.streamingMessage = ""]
    [] message.type = "error" ->
         [c EXCEPT !.currentStreamingMessage = FALSE,
                   !.streamingMessage = "",
                   !.content = [text |-> "error", error |-> message.error]]
    [] OTHER -> c

\* The callback on a component that is no longer mounted: React drops the
\* state updates, the push to the closure's toolOutputs array happens.
onMessageUnmounted(c, message) ==
  IF message.type = "tool_result"
    THEN [c EXCEPT !.toolOutputs = Push(c.toolOutputs, message)]
    ELSE c

\* toolOutputs of the assistant message: the array of the closure once a
\* content event has attached it, undefined before.
MessageToolOutputs(c) == IF c.attached THEN c.toolOutputs ELSE <<>>

\* History: how far the events so far follow start, thinking, tool_calls,
\* (tool_start, tool_result)*, content, end.
ShapeAfter(shape, type) ==
  CASE shape = "idle"     /\ type = "start"       -> "started"
    [] shape = "started"  /\ type = "thinking"    -> "thought"
    [] shape = "thought"  /\ type = "tool_calls"  -> "tools"
    [] shape = "tools"    /\ type = "tool_start"  -> "running"
    [] shape = "running"  /\ type = "tool_result" -> "tools"
    [] shape = "tools"    /\ type = "content"     -> "answered"
    [] shape = "answered" /\ type = "end"         -> "ended"
    [] OTHER -> "other"

HistAfter(h, message) ==
  [h EXCEPT
     !.shape = ShapeAfter(h.shape, message.type),
     !.got   = IF message.type = "tool_result" /\ h.said = NoText
                 THEN Append(h.got, message.formatted_result) ELSE h.got,
     !.said  = IF message.type = "content"
                 THEN [text |-> message.content, error |-> NoError] ELSE h.said,
     !.err   = IF message.type = "error" THEN message.error ELSE h.err]

\* chatWithAgentStream calls onMessage(message).
Dispatched(message) ==
  /\ chat' = IF mounted THEN onMessage(chat, message)
                        ELSE onMessageUnmounted(chat, message)
  /\ nframes' = nframes + 1
  /\ hist' = HistAfter(hist, message)

\* chatWithAgentStream calls onMessage(message) from its catch and returns;
\* handleStreamingChat returns and handleSendMessage sets isLoading false.
Caught(message, errBody) ==
  /\ chat' = IF mounted
               THEN [onMessage(chat, message) EXCEPT !.isLoading = FALSE]
               ELSE onMessageUnmounted(chat, message)
  /\ nframes' = nframes + 1
  /\ hist' = [HistAfter(hist, message) EXCEPT !.body = errBody]
  /\ req' = "returned"
  /\ UNCHANGED mounted

\* handleSendMessage and handleStreamingChat up to the fetch.
ChatSubmit ==
  /\ req = "none" /\ mounted
  /\ chat' = [chat EXCEPT !.isLoading = TRUE, !.currentStreamingMessage = TRUE,
                          !.content = NoText, !.attached = FALSE,
                          !.toolOutputs = <<>>]
  /\ req' = "fetching"
  /\ UNCHANGED <<mounted, nframes, hist>>

\* fetch rejects.
FetchRejects ==
  /\ req = "fetching"
  /\ Caught(CaughtMessage("fetch", "", ""), NoBody)

\* The response is not ok, with the body b.
ResponseNotOk(b, statusText) ==
  /\ req = "fetching"
  /\ Caught(CaughtMessage("http", statusText, Detail(b, statusText)), b)

\* The response is ok and has no body.
ResponseNoBody ==
  /\ req = "fetching"
  /\ Caught(CaughtMessage("nobody", "", ""), NoBody)

\* The response is ok: the read loop starts.
ResponseOk ==
  /\ req = "fetching"
  /\ req' = "reading"
  /\ UNCHANGED <<chat, mounted, nframes, hist>>

\* The read loop parses a line and passes the event to onMessage.
Frame(m) ==
  /\ req = "reading"
  /\ nframes < MaxFrames
  /\ m.type = "tool_result" => Len(chat.toolOutputs) < MaxResults
  /\ Dispatched(m)
  /\ UNCHANGED <<req, mounted>>

\* Mutant: the rejection of reader.read() leaves chatWithAgentStream as a
\* rejected promise; handleSendMessage catches it and sets isLoading false.
ChatReadFailThrown ==
  /\ req = "reading"
  /\ req' = "rejected"
  /\ chat' = IF mounted THEN [chat EXCEPT !.isLoading = FALSE] ELSE chat
  /\ UNCHANGED <<mounted, nframes, hist>>

\* reader.read() rejects.
ChatReadFail ==
  /\ req = "reading"
  /\ Caught(CaughtMessage("read", "", ""), NoBody)

\* reader.read() returns done: chatWithAgentStream and handleStreamingChat
\* return, handleSendMessage sets isLoading false.
ChatReadDone ==
  /\ req = "reading"
  /\ req' = "returned"
  /\ chat' = IF mounted THEN [chat EXCEPT !.isLoading = FALSE] ELSE chat
  /\ UNCHANGED <<mounted, nframes, hist>>

\* AgentChat is unmounted.
Unmount ==
  /\ mounted
  /\ mounted' = FALSE
  /\ UNCHANGED <<chat, req, nframes, hist>>

ChatInit ==
  TrackerIdle /\ StreamIdle /\ CacheIdle /\ ChatIdle /\ ApiIdle /\ BatchIdle

ChatNext ==
  \/ ChatSubmit /\ UNCHANGED <<trackerVars, streamVars, cacheVars, apiVars, batchVars>>
  \/ FetchRejects /\ UNCHANGED <<trackerVars, streamVars, cacheVars, apiVars, batchVars>>
  \/ \E b \in ErrorBodies, t \in StatusTexts :
       ResponseNotOk(b, t) /\ UNCHANGED <<trackerVars, streamVars, cacheVars, apiVars, batchVars>>
  \/ ResponseNoBody /\ UNCHANGED <<trackerVars, streamVars, cacheVars, apiVars, batchVars>>
  \/ ResponseOk /\ UNCHANGED <<trackerVars, streamVars, cacheVars, apiVars, batchVars>>
  \/ \E m \in Frames : Frame(m) /\ UNCHANGED <<trackerVars, streamVars, cacheVars, apiVars, batchVars>>
  \/ ChatReadFail /\ UNCHANGED <<trackerVars, streamVars, cacheVars, apiVars, batchVars>>
  \/ ChatReadDone /\ UNCHANGED <<trackerVars, streamVars, cacheVars, apiVars, batchVars>>
  \/ Unmount /\ UNCHANGED <<trackerVars, streamVars, cacheVars, apiVars, batchVars>>

ChatSpec == ChatInit /\ [][ChatNext]_vars

\* --------------------------------------------------------------- the cache
\* IndexedDBCacheService.  Every method awaits requests to the database; the
\* database performs the requests one at a time in the order they were
\* made, and the method goes on when its request has been performed.
Values    == {"v1", "v2"}
Omitted   == -1           \* set called without ttl
TtlInputs == (0..MaxTtl) \cup {Omitted}

NoKey  == "nokey"

CacheItem(value, expireTime, lastAccessed) ==
  [value |-> value, expireTime |-> expireTime, lastAccessed |-> lastAccessed]

\* A request to the database made by the method f: db.get, db.put,
\* db.delete of one key, db.getAllKeys, or the db.get of each of keys that
\* getStats makes at once.  ttl and after are history: the ttl argument of
\* the set, and the keys of goneRead when getStats was called.
Request(f, call, key, item, keys, ttl, after) ==
  [f |-> f, call |-> call, key |-> key, item |-> item, keys |-> keys,
   ttl |-> ttl, after |-> after]

\* ttl || this._defaultTTL
TtlMs(ttl) == IF ttl = Omitted \/ ttl = 0 THEN DefaultTTL ELSE ttl

\* Mutant: nothing counts as expired.
NeverExpired(t, item) == FALSE

\* currentTime > cacheItem.expireTime
Expired(t, item) == t > item.expireTime

\* set(key, value, ttl) up to its await of db.put.
CacheSet(k, v, ttl) ==
  /\ Len(queue) < MaxRequests
  /\ queue' = Append(
       [i \in 1..Len(queue) |->
          [queue[i] EXCEPT !.after = queue[i].after \ {k}]],
       Request("set", "put", k, CacheItem(v, now + TtlMs(ttl), now), {}, ttl, {}))
  /\ goneRead' = goneRead \ {k}
  /\ UNCHANGED <<store, now, ret>>

\* set after db.put: it returns.
SetPut(r) ==
  /\ store' = [store EXCEPT ![r.key] = r.item]
  /\ queue' = Tail(queue)
  /\ ret' = [f |-> "set", key |-> r.key, result |-> Absent]
  /\ UNCHANGED <<now, goneRead>>

\* get(key) up to its await of db.get.
CacheGet(k) ==
  /\ Len(queue) < MaxRequests
  /\ queue' = Append(queue, Request("get", "get", k, NoEntry, {}, Omitted, {}))
  /\ UNCHANGED <<store, now, ret, goneRead>>

\* get after db.get: no item, an expired item (delete is called), or an
\* item to write back with lastAccessed = now.
GetRead(r) ==
  LET cacheItem == store[r.key] IN
  /\ IF cacheItem = NoEntry
       THEN /\ queue' = Tail(queue)
            /\ ret' = [f |-> "get", key |-> r.key, result |-> Absent]
       ELSE IF Expired(now, cacheItem)
         THEN /\ queue' = Append(Tail(queue),
                    Request("get", "delete", r.key, cacheItem, {}, Omitted, {}))
              /\ ret' = ret
         ELSE /\ queue' = Append(Tail(queue),
                    Request("get", "put", r.key,
                            [cacheItem EXCEPT !.lastAccessed = now], {}, Omitted, {}))
              /\ ret' = ret
  /\ UNCHANGED <<store, now, goneRead>>

\* Mutant: get returns null for an expired entry and leaves it in the store.
GetDeleteKeeps(r) ==
  /\ queue' = Tail(queue)
  /\ ret' = [f |-> "get", key |-> r.key, result |-> Absent]
  /\ goneRead' = goneRead \cup {r.key}
  /\ UNCHANGED <<store, now>>

\* get after delete(key) has awaited db.delete: it returns null.
GetDelete(r) ==
  /\ store' = [store EXCEPT ![r.key] = NoEntry]
  /\ queue' = Tail(queue)
  /\ ret' = [f |-> "get", key |-> r.key, result |-> Absent]
  /\ goneRead' =
       IF \E i \in 2..Len(queue) : queue[i].f = "set" /\ queue[i].key = r.key
         THEN goneRead \ {r.key} ELSE goneRead \cup {r.key}
  /\ UNCHANGED now

\* get after db.put of the item it read: it returns the value.
GetPut(r) ==
  /\ store' = [store EXCEPT ![r.key] = r.item]
  /\ queue' = Tail(queue)
  /\ ret' = [f |-> "get", key |-> r.key, result |-> r.item.value]
  /\ UNCHANGED <<now, goneRead>>

\* getStats() up to its await of db.getAllKeys.
CacheGetStats ==
  /\ Len(queue) < MaxRequests
  /\ queue' = Append(queue,
       Request("getStats", "getAllKeys", NoKey, NoEntry, {}, Omitted, goneRead))
  /\ UNCHANGED <<store, now, ret, goneRead>>

\* What getStats returns for the keys and the items it has read.
Stats(allKeys, item, currentTime) ==
  LET expiredItems ==
        {k \in allKeys : item[k] # NoEntry /\ Expired(currentTime, item[k])}
  IN [f            |-> "getStats",
      totalItems   |-> Cardinality(allKeys),
      activeItems  |-> Cardinality(allKeys) - Cardinality(expiredItems),
      expiredItems |-> Cardinality(expiredItems),
      cacheKeys    |-> allKeys]

\* getStats after db.getAllKeys: one db.get per key, all made at once, so
\* that they are performed one after the other with nothing in between.
StatsKeys(r) ==
  LET allKeys == {k \in Keys : store[k] # NoEntry} IN
  /\ IF allKeys = {}
       THEN /\ queue' = Tail(queue)
            /\ ret' = Stats({}, store, now)
       ELSE /\ queue' = Append(Tail(queue),
                    Request("getStats", "getItems", NoKey, NoEntry, allKeys, Omitted, r.after))
            /\ ret' = ret
  /\ UNCHANGED <<store, now, goneRead>>

\* getStats after the db.get of every key: it counts and returns.
StatsItems(r) ==
  /\ queue' = Tail(queue)
  /\ ret' = Stats(r.keys, store, now)
  /\ UNCHANGED <<store, now, goneRead>>

\* Time passes.
ClockTick ==
  /\ now < MaxTime
  /\ now' = now + 1
  /\ UNCHANGED <<store, queue, ret, goneRead>>

\* The database performs the oldest request, of method f and call c.
Performs(f, c) == queue # <<>> /\ Head(queue).f = f /\ Head(queue).call = c

CacheInit ==
  TrackerIdle /\ StreamIdle /\ CacheIdle /\ ChatIdle /\ ApiIdle /\ BatchIdle

CacheNext ==
  \/ \E k \in Keys, v \in Values, ttl \in TtlInputs :
       CacheSet(k, v, ttl) /\ UNCHANGED <<trackerVars, streamVars, chatVars, apiVars, batchVars>>
  \/ \E k \in Keys : CacheGet(k) /\ UNCHANGED <<trackerVars, streamVars, chatVars, apiVars, batchVars>>
  \/ CacheGetStats /\ UNCHANGED <<trackerVars, streamVars, chatVars, apiVars, batchVars>>
  \/ Performs("set", "put") /\ SetPut(Head(queue))
       /\ UNCHANGED <<trackerVars, streamVars, chatVars, apiVars, batchVars>>
  \/ Performs("get", "get") /\ GetRead(Head(queue))
       /\ UNCHANGED <<trackerVars, streamVars, chatVars, apiVars, batchVars>>
  \/ Performs("get", "delete") /\ GetDelete(Head(queue))
       /\ UNCHANGED <<trackerVars, streamVars, chatVars, apiVars, batchVars>>
  \/ Performs("get", "put") /\ GetPut(Head(queue))
       /\ UNCHANGED <<trackerVars, streamVars, chatVars, apiVars, batchVars>>
  \/ Performs("getStats", "getAllKeys") /\ StatsKeys(Head(queue))
       /\ UNCHANGED <<trackerVars, streamVars, chatVars, apiVars, batchVars>>
  \/ Performs("getStats", "getItems") /\ StatsItems(Head(queue))
       /\ UNCHANGED <<trackerVars, streamVars, chatVars, apiVars, batchVars>>
  \/ ClockTick /\ UNCHANGED <<trackerVars, streamVars, chatVars, apiVars, batchVars>>

CacheSpec == CacheInit /\ [][CacheNext]_vars

\* ------------------------------------------------- the cache, the sweeps
\* clearPattern and cleanup of IndexedDBCacheService, with set and getStats,
\* on the keys a:1, a:2, b:1.  getAllKeys returns the keys in key order.
SweepKeys == {"a:1", "a:2", "b:1"}
KeyOrder  == <<"a:1", "a:2", "b:1">>
Patterns  == {"a:", ":", "1", "b:1", ".", "a1", ""}

\* The characters of a key or of a pattern.
CharsOf(str) ==
  CASE str = "a:1" -> <<"a", ":", "1">>
    [] str = "a:2" -> <<"a", ":", "2">>
    [] str = "b:1" -> <<"b", ":", "1">>
    [] str = "a:"  -> <<"a", ":">>
    [] str = ":"   -> <<":">>
    [] str = "1"   -> <<"1">>
    [] str = "."   -> <<".">>
    [] str = "a1"  -> <<"a", "1">>
    [] OTHER       -> <<>>

\* Mutant: the pattern is matched at the start of the key only.
StartsWith(key, pattern) ==
  /\ Len(CharsOf(pattern)) <= Len(CharsOf(key))
  /\ SubSeq(CharsOf(key), 1, Len(CharsOf(pattern))) = CharsOf(pattern)

\* key.includes(pattern)
Includes(key, pattern) ==
  \E i \in 0..(Len(CharsOf(key)) - Len(CharsOf(pattern))) :
    SubSeq(CharsOf(key), i + 1, i + Len(CharsOf(pattern))) = CharsOf(pattern)

\* A request of clearPattern or cleanup: keys is what is left of allKeys to
\* go through, pattern the argument of clearPattern, currentTime and
\* deletedCount the locals of cleanup.  all and gone are history: the keys
\* getAllKeys returned and the keys the method has deleted.
SweepRequest(f, call, key, keys, pattern, currentTime, deletedCount, all, gone) ==
  [f |-> f, call |-> call, key |-> key, item |-> NoEntry, keys |-> keys,
   ttl |-> Omitted, after |-> {}, pattern |-> pattern,
   currentTime |-> currentTime, deletedCount |-> deletedCount,
   all |-> all, gone |-> gone]

\* db.getAllKeys
GetAllKeys(s) == SelectSeq(KeyOrder, LAMBDA k : s[k] # NoEntry)

\* clearPattern(pattern) up to its await of db.getAllKeys.
ClearPattern(pattern) ==
  /\ Len(queue) < MaxRequests
  /\ queue' = Append(queue,
       SweepRequest("clearPattern", "getAllKeys", NoKey, <<>>, pattern, 0, 0,
                    <<>>, {}))
  /\ UNCHANGED <<store, now, ret, goneRead>>

\* The for loop of clearPattern with keys left to delete: the db.delete of
\* the next key, or the return of keysToDelete.length.
ClearLoop(r, keys, all, gone) ==
  IF keys = <<>>
    THEN /\ queue' = Tail(queue)
         /\ ret' = [f |-> "clearPattern", pattern |-> r.pattern,
                    result |-> Len(all), all |-> all, gone |-> gone]
    ELSE /\ queue' = Append(Tail(queue),
              SweepRequest("clearPattern", "delete", Head(keys), Tail(keys),
                           r.pattern, 0, 0, all, gone))
         /\ ret' = ret

\* clearPattern after db.getAllKeys: the filter, and the first delete.
ClearKeys(r) ==
  LET keysToDelete ==
        SelectSeq(GetAllKeys(store), LAMBDA k : Includes(k, r.pattern))
  IN /\ ClearLoop(r, keysToDelete, keysToDelete, {})
     /\ UNCHANGED <<store, now, goneRead>>

\* clearPattern after a db.delete.
ClearDelete(r) ==
  /\ store' = [store EXCEPT ![r.key] = NoEntry]
  /\ ClearLoop(r, r.keys, r.all, r.gone \cup {r.key})
  /\ UNCHANGED <<now, goneRead>>

\* cleanup() up to its await of db.getAllKeys.
Cleanup ==
  /\ Len(queue) < MaxRequests
  /\ queue' = Append(queue,
       SweepRequest("cleanup", "getAllKeys", NoKey, <<>>, "", 0, 0, <<>>, {}))
  /\ UNCHANGED <<store, now, ret, goneRead>>

\* The for loop of cleanup with keys left to look at: the db.get of the
\* next key, or the return of deletedCount.
CleanupLoop(r, keys, currentTime, deletedCount, all, gone) ==
  IF keys = <<>>
    THEN /\ queue' = Tail(queue)
         /\ ret' = [f |-> "cleanup", result |-> deletedCount,
                    currentTime |-> currentTime, all |-> all, gone |-> gone]
    ELSE /\ queue' = Append(Tail(queue),
              SweepRequest("cleanup", "get", Head(keys), Tail(keys), "",
                           currentTime, deletedCount, all, gone))
         /\ ret' = ret

\* cleanup after db.getAllKeys: currentTime = Date.now(), and the first get.
CleanupKeys(r) ==
  /\ CleanupLoop(r, GetAllKeys(store), now, 0, GetAllKeys(store), {})
  /\ UNCHANGED <<store, now, goneRead>>

\* cleanup after the db.get of a key: the db.delete of an expired item, or
\* the next key.
CleanupGet(r) ==
  LET item == store[r.key] IN
  /\ IF item # NoEntry /\ Expired(r.currentTime, item)
       THEN /\ queue' = Append(Tail(queue),
                 [SweepRequest("cleanup", "delete", r.key, r.keys, "",
                               r.currentTime, r.deletedCount, r.all, r.gone)
                    EXCEPT !.item = item])
            /\ ret' = ret
       ELSE CleanupLoop(r, r.keys, r.currentTime, r.deletedCount, r.all, r.gone)
  /\ UNCHANGED <<store, now, goneRead>>

\* cleanup after the db.delete of a key: deletedCount++, and the next key.
CleanupDelete(r) ==
  /\ store' = [store EXCEPT ![r.key] = NoEntry]
  /\ CleanupLoop(r, r.keys, r.currentTime, r.deletedCount + 1, r.all,
                 r.gone \cup {r.key})
  /\ UNCHANGED <<now, goneRead>>

\* getStats after db.getAllKeys, on the keys of the sweeps.
SweepStatsKeys(r) ==
  LET allKeys == {k \in SweepKeys : store[k] # NoEntry} IN
  /\ IF allKeys = {}
       THEN /\ queue' = Tail(queue)
            /\ ret' = Stats({}, store, now)
       ELSE /\ queue' = Append(Tail(queue),
                    Request("getStats", "getItems", NoKey, NoEntry, allKeys,
                            Omitted, r.after))
            /\ ret' = ret
  /\ UNCHANGED <<store, now, goneRead>>

SweepInit ==
  /\ TrackerIdle /\ StreamIdle /\ ChatIdle /\ ApiIdle /\ BatchIdle
  /\ store = [k \in SweepKeys |-> NoEntry]
  /\ now = 0 /\ queue = <<>> /\ ret = NoRet /\ goneRead = {}

SweepNext ==
  \/ \E k \in SweepKeys, ttl \in 1..MaxTtl :
       CacheSet(k, "v1", ttl) /\ UNCHANGED <<trackerVars, streamVars, chatVars, apiVars, batchVars>>
  \/ \E pattern \in Patterns :
       ClearPattern(pattern) /\ UNCHANGED <<trackerVars, streamVars, chatVars, apiVars, batchVars>>
  \/ Cleanup /\ UNCHANGED <<trackerVars, streamVars, chatVars, apiVars, batchVars>>
  \/ CacheGetStats /\ UNCHANGED <<trackerVars, streamVars, chatVars, apiVars, batchVars>>
  \/ Performs("set", "put") /\ SetPut(Head(queue))
       /\ UNCHANGED <<trackerVars, streamVars, chatVars, apiVars, batchVars>>
  \/ Performs("clearPattern", "getAllKeys") /\ ClearKeys(Head(queue))
       /\ UNCHANGED <<trackerVars, streamVars, chatVars, apiVars, batchVars>>
  \/ Performs("clearPattern", "delete") /\ ClearDelete(Head(queue))
       /\ UNCHANGED <<trackerVars, streamVars, chatVars, apiVars, batchVars>>
  \/ Performs("cleanup", "getAllKeys") /\ CleanupKeys(Head(queue))
       /\ UNCHANGED <<trackerVars, streamVars, chatVars, apiVars, batchVars>>
  \/ Performs("cleanup", "get") /\ CleanupGet(Head(queue))
       /\ UNCHANGED <<trackerVars, streamVars, chatVars, apiVars, batchVars>>
  \/ Performs("cleanup", "delete") /\ CleanupDelete(Head(queue))
       /\ UNCHANGED <<trackerVars, streamVars, chatVars, apiVars, batchVars>>
  \/ Performs("getStats", "getAllKeys") /\ SweepStatsKeys(Head(queue))
       /\ UNCHANGED <<trackerVars, streamVars, chatVars, apiVars, batchVars>>
  \/ Performs("getStats", "getItems") /\ StatsItems(Head(queue))
       /\ UNCHANGED <<trackerVars, streamVars, chatVars, apiVars, batchVars>>
  \/ ClockTick /\ UNCHANGED <<trackerVars, streamVars, chatVars, apiVars, batchVars>>

SweepSpec == SweepInit /\ [][SweepNext]_vars

\* ------------------------------------------- the cached API wrappers

\* The wrappers of api.ts that read and write indexedDBCache.
Wrappers ==
  {"searchStocks", "getStockInfo", "getStockPriceHistory", "getAIAnalysis",
   "getStockIntraday", "getAIIntradayAnalysis", "getAITimeSeriesAnalysis"}

\* What the server answers: an HTTP status and, for 200, the body.
\*   "ok"    {success: true, data: ...}     "fail"  {success: false, error}
\*   "raw"   an object without success      "empty" no body (null)
Bodies == {"ok", "fail", "raw", "empty"}

Answers ==
  [status : {200}, body : Bodies]
    \cup [status : {404, 401, 429, 500, 0}, body : {"empty"}]

\* The response interceptor: a 2xx response passes, a 404 resolves to
\* {data: {success: false, error, isNotFound: true}}, anything else rejects.
Interceptor(answer) ==
  IF answer.status = 200 THEN [resolved |-> TRUE, data |-> answer.body]
  ELSE IF answer.status = 404 THEN [resolved |-> TRUE, data |-> "notfound"]
  ELSE [resolved |-> FALSE, data |-> "empty"]

\* if (response.data)
Truthy(data) == data # "empty"

\* 'success' in response.data
HasSuccess(data) == data \in {"ok", "fail", "notfound"}

\* The success field of a value a wrapper returns or stores; "wrapped" is
\* {success: true, data: response.data}, "data" the response.data.data that
\* getAITimeSeriesAnalysis stores, "hit" what it builds from a cache hit.
Success(value) == value \in {"ok", "wrapped", "data", "hit"}

Nothing == "nothing"

\* The value a wrapper hands to indexedDBCache.set for the data of a
\* resolved response, or Nothing.
ToCache(fn, data) ==
  IF fn = "getAITimeSeriesAnalysis"
    THEN IF data = "ok" THEN "data" ELSE Nothing
  ELSE IF fn = "searchStocks"
    THEN IF Truthy(data) THEN data ELSE "wrapped"
  ELSE IF Truthy(data) /\ HasSuccess(data) THEN data ELSE "wrapped"

\* What the wrapper returns for the data of a resolved response;
\* getAITimeSeriesAnalysis reads response.data.success, which throws on a
\* response without body.
Result(fn, data) ==
  IF fn = "getAITimeSeriesAnalysis"
    THEN IF Truthy(data) THEN data ELSE "caught"
  ELSE ToCache(fn, data)

\* What the wrapper returns for a cached value.
FromCache(fn, cachedResult) ==
  IF fn = "getAITimeSeriesAnalysis" THEN "hit" ELSE cachedResult

\* The network request of a call.
ApiFetch(a) == [a EXCEPT !.phase = "fetch", !.requests = @ + 1]

\* A call of the wrapper: with forceRefresh it goes to the network, without
\* it awaits indexedDBCache.get(cacheKey).
ApiCall(forceRefresh) ==
  /\ api.phase \in {"idle", "returned"}
  /\ api.calls < MaxCalls
  /\ LET a == [api EXCEPT !.forceRefresh = forceRefresh, !.calls = @ + 1,
                          !.data = "none", !.result = "none",
                          !.fromCache = FALSE] IN
     IF forceRefresh
       THEN api' = ApiFetch(a) /\ UNCHANGED cacheVars
       ELSE api' = [a EXCEPT !.phase = "get"] /\ CacheGet(api.fn)

\* Mutant: the cached result is not looked at.
ApiGotIgnored ==
  /\ api.phase = "get"
  /\ queue = <<>>
  /\ api' = ApiFetch(api)
  /\ UNCHANGED cacheVars

\* The get has returned: if (cachedResult) return it, else the request.
ApiGot ==
  /\ api.phase = "get"
  /\ queue = <<>>
  /\ IF ret.result # Absent
       THEN api' = [api EXCEPT !.phase = "returned", !.fromCache = TRUE,
                               !.result = FromCache(api.fn, ret.result)]
       ELSE api' = ApiFetch(api)
  /\ UNCHANGED cacheVars

\* The answer of the server has passed the interceptor: a rejection is
\* caught and returned as a failure, a resolved response is returned, after
\* the await of indexedDBCache.set where the wrapper caches it.
ApiResponse(answer) ==
  LET response == Interceptor(answer)
      value    == ToCache(api.fn, response.data) IN
  /\ api.phase = "fetch"
  /\ IF ~response.resolved
       THEN /\ api' = [api EXCEPT !.phase = "returned", !.result = "caught"]
            /\ UNCHANGED cacheVars
       ELSE IF value = Nothing
         THEN /\ api' = [api EXCEPT !.phase = "returned",
                                    !.result = Result(api.fn, response.data)]
              /\ UNCHANGED cacheVars
         ELSE /\ api' = [api EXCEPT !.phase = "set",
                                    !.data = Result(api.fn, response.data)]
              /\ CacheSet(api.fn, value, MaxTtl)

\* The set has returned, and the wrapper returns.
ApiSetDone ==
  /\ api.phase = "set"
  /\ queue = <<>>
  /\ api' = [api EXCEPT !.phase = "returned", !.result = api.data]
  /\ UNCHANGED cacheVars

\* One wrapper, and the cache with the one key it uses.
ApiInit ==
  /\ TrackerIdle /\ StreamIdle /\ ChatIdle /\ BatchIdle
  /\ \E fn \in Wrappers :
       /\ api = [NoApi EXCEPT !.fn = fn]
       /\ store = [k \in {fn} |-> NoEntry]
  /\ queue = <<>> /\ now = 0 /\ ret = NoRet /\ goneRead = {}

ApiNext ==
  \/ \E forceRefresh \in BOOLEAN :
       ApiCall(forceRefresh) /\ UNCHANGED <<trackerVars, streamVars, chatVars, batchVars>>
  \/ ApiGot /\ UNCHANGED <<trackerVars, streamVars, chatVars, batchVars>>
  \/ \E answer \in Answers :
       ApiResponse(answer) /\ UNCHANGED <<trackerVars, streamVars, chatVars, batchVars>>
  \/ ApiSetDone /\ UNCHANGED <<trackerVars, streamVars, chatVars, batchVars>>
  \/ Performs("set", "put") /\ SetPut(Head(queue))
       /\ UNCHANGED <<trackerVars, streamVars, chatVars, apiVars, batchVars>>
  \/ Performs("get", "get") /\ GetRead(Head(queue))
       /\ UNCHANGED <<trackerVars, streamVars, chatVars, apiVars, batchVars>>
  \/ Performs("get", "delete") /\ GetDelete(Head(queue))
       /\ UNCHANGED <<trackerVars, streamVars, chatVars, apiVars, batchVars>>
  \/ Performs("get", "put") /\ GetPut(Head(queue))
       /\ UNCHANGED <<trackerVars, streamVars, chatVars, apiVars, batchVars>>
  \/ ClockTick /\ UNCHANGED <<trackerVars, streamVars, chatVars, apiVars, batchVars>>

ApiSpec == ApiInit /\ [][ApiNext]_vars

\* ------------------------------------------------------- the batch

\* The statuses of a batch job on the server.
BatchStatus == {"PENDING", "PROGRESS", "SUCCESS", "FAILURE", "REVOKED"}

\* What a status request of the batch has got back: nothing yet, the
\* snapshot {status, meta: {progress}} of the job, the substitute of the
\* interceptor for a 404 (no data field), or a rejection.
BatchSnap(kind, status, pr) == [kind |-> kind, status |-> status, pr |-> pr]
NoBatchSnap == BatchSnap("none", "", NoProgress)

\* The symbol lists startAnalysis parses from the input.
SymbolLists == {<<>>, <<"AAPL">>}

\* The next job id the server gives out.
NextBatchJob == CHOOSE j \in BatchJobs :
  batchSrv[j].st = "none" /\ \A i \in BatchJobs : i < j => batchSrv[i].st # "none"

\* window.clearInterval(intervalRef.current), where it is not null.
BatchCleared == {t \in batchTimers : t.id # batch.intervalRef}

\* setState of a component that has unmounted does nothing.
BatchSet(b) == IF batch.mounted THEN b ELSE batch

\* Mutant: startAnalysis sends whatever list it has parsed.
BatchStartUnchecked(symbolList) ==
  /\ batch.mounted /\ ~batch.loading
  /\ batch' = [batch EXCEPT !.loading = TRUE]
  /\ batchSubmits' = batchSubmits + 1
  /\ UNCHANGED <<batchTimers, batchPolls, batchSrv, batchDownloads>>

\* startAnalysis up to its await of api.post; with no symbol it shows the
\* error and returns, and finally sets loading to false.
BatchStart(symbolList) ==
  /\ batch.mounted /\ ~batch.loading
  /\ IF Len(symbolList) = 0
       THEN /\ batch' = [batch EXCEPT !.message = "empty", !.loading = FALSE]
            /\ UNCHANGED batchSubmits
       ELSE /\ batch' = [batch EXCEPT !.loading = TRUE]
            /\ batchSubmits' = batchSubmits + 1
  /\ UNCHANGED <<batchTimers, batchPolls, batchSrv, batchDownloads>>

\* pollTaskStatus(taskId): the previous interval is cleared and a new one
\* is set, whose handle intervalRef keeps.
PollTaskStatus(b, taskId) ==
  /\ batchTimers' = BatchCleared \cup {[id |-> taskId, job |-> taskId]}
  /\ batch' = [b EXCEPT !.intervalRef = taskId]

\* The server has admitted the batch: setTaskId, pollTaskStatus, and
\* finally loading is false.
BatchSubmitOk ==
  /\ batchSubmits > 0
  /\ \E j \in BatchJobs : batchSrv[j].st = "none"
  /\ LET taskId == NextBatchJob IN
       /\ batchSrv' = [batchSrv EXCEPT ![taskId] =
                         [st |-> "PENDING", pr |-> NoProgress]]
       /\ PollTaskStatus(
            [BatchSet([batch EXCEPT !.taskId = taskId, !.loading = FALSE])
               EXCEPT !.message = "started"], taskId)
  /\ batchSubmits' = batchSubmits - 1
  /\ UNCHANGED <<batchPolls, batchDownloads>>

\* The server has refused the batch (success false, or the substitute for
\* a 404), or the request was rejected: a message, loading is false.
BatchSubmitFail(refused) ==
  /\ batchSubmits > 0
  /\ batch' = [BatchSet([batch EXCEPT !.loading = FALSE])
                 EXCEPT !.message = IF refused THEN "refused" ELSE "failed"]
  /\ batchSubmits' = batchSubmits - 1
  /\ UNCHANGED <<batchTimers, batchPolls, batchSrv, batchDownloads>>

\* A tick of the interval t: the status request of its job is sent.
BatchTick(t) ==
  /\ t \in batchTimers
  /\ BagCardinality(batchPolls) < MaxBatchPolls
  /\ batchPolls' = batchPolls (+) SetToBag({[job |-> t.job, snap |-> NoBatchSnap]})
  /\ UNCHANGED <<batch, batchTimers, batchSubmits, batchSrv, batchDownloads>>

\* The server answers the request p with the job as it is now, or by 404;
\* or the transport fails (kind "error").
BatchAnswer(p, kind) ==
  /\ BagIn(p, batchPolls) /\ p.snap = NoBatchSnap
  /\ LET s == IF kind = "ok"
                THEN BatchSnap("ok", batchSrv[p.job].st, batchSrv[p.job].pr)
                ELSE BatchSnap(kind, "", NoProgress) IN
     batchPolls' = (batchPolls (-) SetToBag({p}))
                     (+) SetToBag({[p EXCEPT !.snap = s]})
  /\ UNCHANGED <<batch, batchTimers, batchSubmits, batchSrv, batchDownloads>>

\* The catch of the interval's callback: the interval is cleared.
BatchCatch ==
  /\ batchTimers' = BatchCleared
  /\ batch' = [batch EXCEPT !.intervalRef = Null, !.message = "statusFailed"]

\* The callback after its await of api.get, for the response of p: status
\* and progress are set, and on SUCCESS or FAILURE the interval is cleared;
\* a response without data.data throws into the catch, as a rejection does.
BatchPollResponse(p) ==
  /\ BagIn(p, batchPolls) /\ p.snap # NoBatchSnap
  /\ batchPolls' = batchPolls (-) SetToBag({p})
  /\ IF p.snap.kind = "ok"
       THEN LET b == BatchSet([batch EXCEPT
                       !.status = p.snap.status,
                       !.progress = IF p.snap.pr # NoProgress /\ p.snap.pr # 0
                                      THEN p.snap.pr ELSE @]) IN
            IF p.snap.status \in {"SUCCESS", "FAILURE"}
              THEN /\ batchTimers' = BatchCleared
                   /\ batch' = [b EXCEPT !.intervalRef = Null,
                                  !.message = IF p.snap.status = "SUCCESS"
                                                THEN "done" ELSE "analysisFailed"]
              ELSE /\ batch' = b
                   /\ UNCHANGED batchTimers
       ELSE BatchCatch
  /\ UNCHANGED <<batchSubmits, batchSrv, batchDownloads>>

\* The worker of the job j: it starts, reports progress, ends, or is revoked.
BatchServerStep(j) ==
  /\ batchSrv[j].st \in {"PENDING", "PROGRESS"}
  /\ \/ \E pr \in FineProgress :
          /\ batchSrv[j].pr < pr
          /\ batchSrv' = [batchSrv EXCEPT ![j] = [st |-> "PROGRESS", pr |-> pr]]
     \/ \E s \in TerminalStatus :
          batchSrv' = [batchSrv EXCEPT ![j].st = s]
  /\ UNCHANGED <<batch, batchTimers, batchSubmits, batchPolls, batchDownloads>>

\* The component unmounts: the cleanup clears the interval of intervalRef.
BatchUnmount ==
  /\ batch.mounted
  /\ batch' = [batch EXCEPT !.mounted = FALSE]
  /\ batchTimers' = BatchCleared
  /\ UNCHANGED <<batchSubmits, batchPolls, batchSrv, batchDownloads>>

\* downloadReport, which the button shown while status is SUCCESS calls, up
\* to its await of api.get: without task id it shows an error, with one it
\* requests /reports/{taskId}/download.  What follows the await saves the
\* file or shows a message, and changes no state of the component.
BatchDownload ==
  /\ batch.mounted /\ batch.status = "SUCCESS"
  /\ IF batch.taskId = Null
       THEN /\ batch' = [batch EXCEPT !.message = "noTask"]
            /\ UNCHANGED batchDownloads
       ELSE /\ batchDownloads' = batchDownloads \cup {batch.taskId}
            /\ UNCHANGED batch
  /\ UNCHANGED <<batchTimers, batchSubmits, batchPolls, batchSrv>>

BatchInit ==
  TrackerIdle /\ StreamIdle /\ CacheIdle /\ ChatIdle /\ ApiIdle /\ BatchIdle

BatchNext ==
  \/ \E symbolList \in SymbolLists :
       BatchStart(symbolList)
         /\ UNCHANGED <<trackerVars, streamVars, cacheVars, chatVars, apiVars>>
  \/ BatchSubmitOk
       /\ UNCHANGED <<trackerVars, streamVars, cacheVars, chatVars, apiVars>>
  \/ \E refused \in BOOLEAN :
       BatchSubmitFail(refused)
         /\ UNCHANGED <<trackerVars, streamVars, cacheVars, chatVars, apiVars>>
  \/ \E t \in batchTimers :
       BatchTick(t)
         /\ UNCHANGED <<trackerVars, streamVars, cacheVars, chatVars, apiVars>>
  \/ \E p \in BagToSet(batchPolls), kind \in {"ok", "notfound", "error"} :
       BatchAnswer(p, kind)
         /\ UNCHANGED <<trackerVars, streamVars, cacheVars, chatVars, apiVars>>
  \/ \E p \in BagToSet(batchPolls) :
       BatchPollResponse(p)
         /\ UNCHANGED <<trackerVars, streamVars, cacheVars, chatVars, apiVars>>
  \/ \E j \in BatchJobs :
       BatchServerStep(j)
         /\ UNCHANGED <<trackerVars, streamVars, cacheVars, chatVars, apiVars>>
  \/ BatchUnmount
       /\ UNCHANGED <<trackerVars, streamVars, cacheVars, chatVars, apiVars>>
  \/ BatchDownload
       /\ UNCHANGED <<trackerVars, streamVars, cacheVars, chatVars, apiVars>>

BatchSpec == BatchInit /\ [][BatchNext]_vars

\* ------------------------------------------------------ claims, the tracker
\* Request p is settled by its answer in this step / by a network error.
Answered(p) == p.snap.kind # "none" /\ polls' = Settled(p)
Failed(p)   == p.snap.kind = "none" /\ polls' = Settled(p)
\* A status request for job j is issued in this step.
Issued(j) ==
  \E r \in BagToSet(polls') :
    /\ r.job = j /\ r.snap.kind = "none"
    /\ CopiesIn(r, polls') > CopiesIn(r, polls)
InFlight(j) == BagCardinality([r \in {q \in BagToSet(polls) : q.job = j} |-> polls[r]])

\* C1, as stated: once a snapshot of a job has reported SUCCESS, FAILURE or
\* REVOKED, no further status request is issued for that job.
C1_NoRequestAfterTerminal == [][\A j \in termSeen : ~Issued(j)]_vars

\* C1, amended: once a snapshot of a job has reported SUCCESS, FAILURE or
\* REVOKED, no interval timer polling that job is left, so that no later
\* tick fires for it.
C1_TimerClearedAfterTerminal == \A t \in timers : t.job \notin termSeen

\* A terminal snapshot has ended a polling that a timer drove.
C1_Witness ==
  /\ st.status = "completed" /\ st.taskId \in termSeen
  /\ nextTimer >= 1 /\ timers = {}

\* C2: cancel() on a polling job, then the next snapshot of the job reports
\* SUCCESS: from then on the tracker is completed, whatever the cancel
\* request is answered.
C2_ServerTruthWins == race = "success" => st.status = "completed"

\* C3: at most one status request per job is outstanding at any time.
C3_OnePollOutstanding == \A j \in Jobs : InFlight(j) <= 1

\* C4: a poll of the tracked job answered with not-found (HTTP 404) puts
\* the polling tracker into error and leaves no timer.
C4_NotFoundStopsPolling ==
  [][\A p \in BagToSet(polls) :
       (/\ Answered(p) /\ p.snap.kind = "notfound404"
        /\ st.status = "polling" /\ p.job = st.taskId)
       => (st'.status = "error" /\ timers' = {})]_vars

\* C5: in a terminal state, a poll response of the tracked job that arrives
\* (or fails) changes neither status nor result nor error.
C5_TerminalIsFinal ==
  [][\A p \in BagToSet(polls) :
       (/\ Answered(p) \/ Failed(p)
        /\ st.status \in {"completed", "error", "canceled"}
        /\ p.job = st.taskId)
       => (/\ st'.status = st.status
           /\ st'.result = st.result
           /\ st'.error = st.error)]_vars

CancelIssued == \E c \in cancels' : c \notin cancels
CancelAcked  == (\E c \in cancels : cancels' = cancels \ {c}) /\ polls' = polls
RevokedAnswered ==
  \E p \in BagToSet(polls) :
    Answered(p) /\ p.snap.kind = "ok" /\ p.snap.status = "REVOKED"
EntersCanceled == st.status # "canceled" /\ st'.status = "canceled"

C7_NetworkErrorKeepsPolling ==
  [][\A p \in BagToSet(polls) :
       (Failed(p) /\ st.status = "polling" /\ p.job = st.taskId)
       => (/\ st'.status = "polling"
           /\ st'.error = ErrStatusFailed
           /\ timers' = timers
           /\ \E t \in timers' : t.job = p.job /\ t.id = st'.pollingInterval)]_vars

C7_Witness ==
  /\ st.status = "polling" /\ st.error = ErrStatusFailed
  /\ \E t \in timers : t.job = st.taskId

\* C8: a tracker polling a job that the server from now on reports as
\* terminal or as not found reaches a terminal state with its timer cleared
\* (under FairSpec: ticks fire, requests are answered, answers arrive).
C8_EventuallyTerminal ==
  (/\ st.status = "polling" /\ creates = 0
   /\ srv[st.taskId].st \in TerminalStatus \cup {"GONE"})
  ~> (st.status \notin {"starting", "polling"} /\ timers = {})

\* ------------------------------------------------------ claims, the decoder
\* The body cut after each newline: one complete line per read.
RECURSIVE LineChunks(_)
LineChunks(bs) ==
  IF bs = <<>> THEN <<>>
  ELSE IF \A i \in 1..Len(bs) : bs[i] # "NL" THEN <<bs>>
  ELSE LET k == CHOOSE i \in 1..Len(bs) :
                  bs[i] = "NL" /\ \A h \in 1..(i - 1) : bs[h] # "NL"
       IN <<SubSeq(bs, 1, k)>> \o LineChunks(SubSeq(bs, k + 1, Len(bs)))

RECURSIVE Feed(_, _)
Feed(d, chunks) ==
  IF chunks = <<>> THEN d ELSE Feed(ReadStep(d, Head(chunks)), Tail(chunks))

EventsLineByLine(bs) ==
  Feed([pending |-> <<>>, buffer |-> <<>>, events |-> <<>>], LineChunks(bs)).events

NewlineTerminated(bs) == bs = <<>> \/ bs[Len(bs)] = "NL"

\* C9: for a body of newline-terminated lines, however its bytes were cut
\* into reads, the events dispatched at the end of the body are those
\* dispatched when the body is fed one complete line per read.
C9_ChunkSplitInvariance ==
  (done /\ NewlineTerminated(body)) => events = EventsLineByLine(body)

\* A body of two lines that parse, read in chunks that cut a line.
C9_Witness ==
  /\ done /\ NewlineTerminated(body) /\ midSplit
  /\ Len(events) = 2 /\ events[1] # events[2]

\* The messages of those of the lines that parse as JSON,
\* in the order of the lines.
RECURSIVE ParsedOf(_)
ParsedOf(lines) ==
  IF lines = <<>> THEN <<>>
  ELSE (IF JsonOk(Head(lines)) THEN <<JsonParse(Head(lines))>> ELSE <<>>)
       \o ParsedOf(Tail(lines))

RECURSIVE TextOf(_)
TextOf(bs) ==
  IF bs = <<>> THEN <<>>
  ELSE IF Head(bs) = "E1" /\ Len(bs) >= 2
    THEN <<"E">> \o TextOf(Tail(Tail(bs)))
    ELSE <<Head(bs)>> \o TextOf(Tail(bs))

\* C10, as stated: at the end of the body, the events dispatched are the
\* messages of the lines of the body that parse as JSON, each once, in the
\* order of the lines; the last line of a body needs no newline after it.
C10_EveryLineOnceInOrder ==
  done => events = ParsedOf(Split(TextOf(body)))

\* The lines of the bytes bs that a newline ends, and what follows the last
\* newline.
CompleteLines(bs) ==
  LET segs == Split(TextOf(bs)) IN SubSeq(segs, 1, Len(segs) - 1)
LastLine(bs) ==
  LET segs == Split(TextOf(bs)) IN segs[Len(segs)]

\* C11: a line that does not parse as JSON is skipped and nothing else: at
\* every point of the stream the events dispatched are the messages of the
\* newline-terminated lines read so far that parse, in the order of the
\* lines, those before and those after a line that does not parse; an error
\* event is dispatched only when a read has failed, then as the last event.
C11_BadLineSkipped ==
  events = ParsedOf(CompleteLines(SubSeq(body, 1, pos)))
             \o (IF failed THEN <<ErrorEvent>> ELSE <<>>)

\* A body read to its end without failure: a line that parses, a line that
\* is not blank and does not parse, a line that parses.
C11_Witness ==
  /\ done /\ ~failed /\ Len(events) = 2
  /\ LET ls == CompleteLines(body)
     IN /\ Len(ls) = 3
        /\ JsonOk(ls[1]) /\ JsonOk(ls[3])
        /\ Trim(ls[2]) # <<>> /\ ~JsonOk(ls[2])

\* C12: at the end of a body whose last line parses as JSON and has no
\* newline after it, that line has been dispatched as the last event.
C12_LastLineWithoutNewline ==
  (done /\ JsonOk(LastLine(body)))
    => events = Append(ParsedOf(CompleteLines(body)), JsonParse(LastLine(body)))
\* --------------------------------------------------------- claims, the chat
\* C13: once an error event has been handled by the mounted chat, no later
\* event of the stream changes the assistant message: its content stays the
\* error text and its tool outputs stay as they are.
C13_ErrorIsTerminal ==
  [][(hist.err # NoError /\ mounted /\ chat.content.error = hist.err)
       => (/\ chat'.content = chat.content
           /\ MessageToolOutputs(chat') = MessageToolOutputs(chat))]_vars

\* The textual error of the body of a response: its error field, or its text.
TextualError(b) == IF b.error # "" THEN b.error ELSE b.text

\* C14: a response whose status is not ok ends the request with exactly one
\* event, an error that carries the textual error of the response body as
\* its detail; nothing else is dispatched.
C14_NotOkCarriesBody ==
  (hist.body # NoBody /\ hist.body.text # "")
    => (/\ req = "returned" /\ nframes = 1
        /\ hist.err.from = "http"
        /\ hist.err.detail = TextualError(hist.body))

\* C15: once the chat that consumes the stream has been unmounted, the
\* decoder issues no further read and dispatches no further event.
C15_NoEventAfterUnmount ==
  [][(~mounted /\ req = "reading") => (nframes' = nframes /\ req' = req)]_vars

\* C16: after start, thinking, tool_calls, (tool_start, tool_result)*,
\* content, end the assistant message has the content of the content event
\* and one tool output per tool_result event, in the order received.
C16_OneOutputPerToolResult ==
  (hist.shape = "ended" /\ mounted)
    => (/\ chat.content = hist.said
        /\ Len(MessageToolOutputs(chat)) = Len(hist.got)
        /\ \A i \in 1..Len(hist.got) :
             hist.got[i] # "" => MessageToolOutputs(chat)[i] = hist.got[i])

\* -------------------------------------------------------- claims, the cache
\* In this step the database performs the oldest request, of method f and
\* call c, and the method goes on (a call of a method only adds a request).
Performed(f, c) ==
  Performs(f, c) /\ Len(queue') <= Len(queue) /\ queue' # queue

\* C17: a get that finds no entry returns absent; a get that finds an entry
\* with now > expireTime deletes the entry and returns absent; a get that
\* returns a value has read it at a time not later than its expireTime.
C17_GetAbsentOrFresh ==
  [][/\ (Performed("get", "get") /\ store[Head(queue).key] = NoEntry)
          => (/\ ret' = [f |-> "get", key |-> Head(queue).key, result |-> Absent]
              /\ store' = store)
     /\ (/\ Performed("get", "get") /\ store[Head(queue).key] # NoEntry
         /\ now > store[Head(queue).key].expireTime)
          => (/\ Len(queue') = Len(queue)
              /\ queue'[Len(queue')].f = "get"
              /\ queue'[Len(queue')].call = "delete"
              /\ queue'[Len(queue')].key = Head(queue).key)
     /\ Performed("get", "delete")
          => (/\ ret' = [f |-> "get", key |-> Head(queue).key, result |-> Absent]
              /\ store'[Head(queue).key] = NoEntry)
     /\ Performed("get", "put")
          => (/\ ret'.f = "get" /\ ret'.result = Head(queue).item.value
              /\ Head(queue).item.lastAccessed <= Head(queue).item.expireTime)
    ]_vars

\* A get has found an expired entry, deleted it and returned absent.
C17_Witness ==
  \E k \in goneRead :
    store[k] = NoEntry /\ ret = [f |-> "get", key |-> k, result |-> Absent]
\* getStats returns in this step: h is the request it waited for.
StatsReturned ==
  \/ Performed("getStats", "getItems")
  \/ Performed("getStats", "getAllKeys") /\ Len(queue') < Len(queue)

\* C18: a get that reads an entry after more than its ttl has passed since
\* the set (now > expireTime) returns absent, and a getStats called after
\* that get has returned, with no set of the key since, does not count the
\* key: it is not in cacheKeys, and the counts are those of cacheKeys.
C18_ExpiredNotCounted ==
  [][/\ Performed("get", "delete")
          => (ret'.result = Absent /\ store'[Head(queue).key] = NoEntry)
     /\ StatsReturned
          => (/\ ret'.f = "getStats"
              /\ \A k \in Head(queue).after : k \notin ret'.cacheKeys
              /\ ret'.totalItems = Cardinality(ret'.cacheKeys)
              /\ ret'.activeItems + ret'.expiredItems = ret'.totalItems)
    ]_vars

\* getStats has returned after a get had found k1 expired, and counts the
\* other key only.
C18_Witness ==
  /\ ret.f = "getStats" /\ ret.cacheKeys = {"k2"}
  /\ "k1" \in goneRead /\ store["k1"] = NoEntry
\* C19: when set(key, value, ttl) returns, the entry of key is the value
\* given with expireTime = time of the set + ttl, or + the default TTL when
\* no ttl was given, whatever the store held before.
C19_SetOverwrites ==
  [][Performed("set", "put")
       => LET r == Head(queue)
          IN /\ store'[r.key].value = r.item.value
             /\ store'[r.key].expireTime =
                  r.item.lastAccessed
                    + (IF r.ttl = Omitted THEN DefaultTTL ELSE r.ttl)
    ]_vars

\* C20: a get that finishes after the entry it read has been replaced (a
\* set of the key was performed while the get was in progress) leaves the
\* new entry: it neither writes the entry it read back over it nor deletes
\* it.
C20_LastWriteWins ==
  [][(Performed("get", "put") \/ Performed("get", "delete"))
       => LET r == Head(queue)
          IN (\/ store[r.key].value # r.item.value
              \/ store[r.key].expireTime # r.item.expireTime)
               => store'[r.key] = store[r.key]
    ]_vars
\* ----------------------------------------------- claims, the cache sweeps
\* pattern occurs in key as a run of consecutive characters.
HasSubstring(key, pattern) ==
  \E i \in 1..(Len(CharsOf(key)) + 1), j \in 0..Len(CharsOf(key)) :
    SubSeq(CharsOf(key), i, j) = CharsOf(pattern)

\* The elements of a sequence.
Range(seq) == {seq[i] : i \in 1..Len(seq)}

\* The method whose request is performed in this step returns in it.
Returns == Len(queue') < Len(queue)

\* C21: clearPattern(p) takes for deletion exactly the stored keys that
\* contain p as a literal substring, each of its deletes removes one of
\* them and leaves every other entry as it is, and it returns the number of
\* keys it has deleted.
C21_ClearPatternExact ==
  [][/\ Performed("clearPattern", "getAllKeys")
          => LET r == Head(queue)
                 match == {k \in SweepKeys :
                             store[k] # NoEntry /\ HasSubstring(k, r.pattern)}
             IN /\ store' = store
                /\ IF match = {}
                     THEN Returns /\ ret'.f = "clearPattern" /\ ret'.result = 0
                     ELSE /\ ~Returns
                          /\ LET d == queue'[Len(queue')]
                             IN /\ d.f = "clearPattern" /\ d.call = "delete"
                                /\ Range(d.all) = match
                                /\ Len(d.all) = Cardinality(match)
                                /\ d.key = Head(d.all) /\ d.keys = Tail(d.all)
     /\ Performed("clearPattern", "delete")
          => LET r == Head(queue)
             IN /\ HasSubstring(r.key, r.pattern)
                /\ store' = [store EXCEPT ![r.key] = NoEntry]
                /\ Returns
                     => (/\ ret'.f = "clearPattern"
                         /\ ret'.gone = Range(ret'.all)
                         /\ ret'.result = Cardinality(ret'.gone))
    ]_vars

\* clearPattern("a:") on the keys a:1, a:2, b:1 has returned 2 and only b:1
\* is left.
C21_Witness ==
  /\ ret.f = "clearPattern" /\ ret.pattern = "a:" /\ ret.result = 2
  /\ ret.gone = {"a:1", "a:2"}
  /\ store["a:1"] = NoEntry /\ store["a:2"] = NoEntry /\ store["b:1"] # NoEntry

\* C22: every delete of cleanup removes an entry with now > expireTime and
\* leaves every other entry as it is; when cleanup returns, its result is
\* the number of entries it has deleted, and getStats at that time counts
\* no expired item among the entries cleanup has gone through.
C22_CleanupExact ==
  [][/\ Performed("cleanup", "delete")
          => LET r == Head(queue)
             IN /\ store[r.key] # NoEntry => now > store[r.key].expireTime
                /\ store' = [store EXCEPT ![r.key] = NoEntry]
     /\ (Returns /\ (\/ Performed("cleanup", "getAllKeys")
                     \/ Performed("cleanup", "get")
                     \/ Performed("cleanup", "delete")))
          => (/\ ret'.f = "cleanup"
              /\ ret'.result = Cardinality(ret'.gone)
              /\ now = ret'.currentTime
                   => Stats({k \in Range(ret'.all) : store'[k] # NoEntry},
                            store', now).expiredItems = 0)
    ]_vars
\* ----------------------------------------- claims, the tracker's lifecycle
\* C25: when the submission of a starting tracker is rejected the tracker
\* goes to error with the error text, calls onError with it and starts no
\* polling; when it is admitted the tracker stores the job id and goes to
\* polling.
C25_SubmitOutcome ==
  [][/\ (CreateFail /\ st.status = "starting")
          => (/\ st'.status = "error"
              /\ st'.error \in {ErrRateLimited, ErrCreateFailed}
              /\ notified' = Call("onError", st'.error, Null)
              /\ timers' = timers /\ nextTimer' = nextTimer /\ polls' = polls)
     /\ (CreateOk /\ st.status = "starting")
          => (st'.taskId = NextJob /\ st'.status = "polling")
    ]_vars
\* The answer to a poll of the job the tracker holds is delivered in this
\* step to a polling tracker, with the given status.
Delivered(status) ==
  /\ st.status = "polling"
  /\ \E p \in BagToSet(polls) :
       /\ p.job = st.taskId /\ p.snap.kind = "ok" /\ p.snap.status = status
       /\ PollResponse(p)

C27_ProgressMonotonic ==
  [][(st.status = "polling" /\ st'.status = "polling" /\ st'.taskId = st.taskId)
       => st'.progress >= st.progress]_vars
\* The error texts the tracker shows.
ErrorTexts ==
  {ErrStatusFailed, ErrNotFound404, ErrTaskNotExist, ErrJobFailed,
   ErrCancelFailed, ErrRateLimited, ErrCreateFailed}

C24_NoJobDataCached ==
  /\ \A k \in Keys : store[k] = NoEntry
  /\ queue = <<>> /\ ret = NoRet

\* A job has been submitted, polled to SUCCESS and its result delivered,
\* and another has been cancelled or has failed; the cache is empty.
C24_Witness ==
  /\ termSeen # {} /\ st.result = 1
  /\ \E j \in Jobs : srv[j].st \in {"REVOKED", "FAILURE"}
  /\ \A k \in Keys : store[k] = NoEntry
\* ------------------------------------------ claims, the cached wrappers

\* C23: the cached API wrappers never cache a response whose success is
\* false, the substitute of the interceptor for a 404 included: the value of
\* every entry of the cache is a success, and so is every cache hit a
\* wrapper returns.
C23_NoFailureCached ==
  /\ \A k \in DOMAIN store : store[k] # NoEntry => Success(store[k].value)
  /\ api.phase = "returned" /\ api.fromCache => Success(api.result)

\* ------------------------------------------------------ claims, the batch

\* C29: the batch stops polling on every terminal status: when the callback
\* of the interval handles a snapshot whose status is SUCCESS, FAILURE or
\* REVOKED, no interval of that job is left to issue another poll.
C29_StopsOnTerminal ==
  [][\A p \in BagToSet(batchPolls) :
       (/\ p.snap.kind = "ok"
        /\ p.snap.status \in TerminalStatus
        /\ BatchPollResponse(p))
         => \A t \in batchTimers' : t.job # p.job]_vars

\* C30: a status request of the batch that fails with a transport error is
\* absorbed: the callback that handles the rejection leaves every interval
\* running, so that the next tick polls again.
C30_TransportErrorAbsorbed ==
  [][\A p \in BagToSet(batchPolls) :
       (p.snap.kind = "error" /\ BatchPollResponse(p))
         => batchTimers' = batchTimers]_vars

\* C31: a batch submission whose parsed symbol list is empty is rejected
\* before any network call: no request is sent, no polling starts, the job
\* id, status and progress are unchanged, and loading is false afterwards.
C31_EmptyListRejected ==
  [][\A symbolList \in SymbolLists :
       Len(symbolList) = 0 /\ BatchStart(symbolList)
         => /\ batchSubmits' = batchSubmits
            /\ batchTimers' = batchTimers /\ batchPolls' = batchPolls
            /\ batch'.intervalRef = batch.intervalRef
            /\ batch'.taskId = batch.taskId
            /\ batch'.status = batch.status
            /\ batch'.progress = batch.progress
            /\ ~batch'.loading]_vars

\* The empty list has been rejected while an earlier job was being polled.
C31_Witness ==
  /\ batch.message = "empty" /\ ~batch.loading /\ batchSubmits = 0
  /\ batch.taskId # Null /\ batchTimers # {}

\* C32: the report of a batch job is requested only after that job has
\* completed, also when a new job was submitted after a successful one: a
\* job whose report has been requested is SUCCESS on the server.
C32_DownloadAfterSuccess ==
  \A j \in batchDownloads : batchSrv[j].st = "SUCCESS"

\* C33: a poll response of an earlier job, arriving after a later job was
\* submitted, changes neither the status nor the progress shown for the
\* later job, and does not clear the later job's interval.
C33_PerJobIsolation ==
  [][\A p \in BagToSet(batchPolls) :
       (/\ batch.taskId # Null /\ p.job < batch.taskId
        /\ BatchPollResponse(p))
         => /\ batch'.status = batch.status
            /\ batch'.progress = batch.progress
            /\ batchTimers' = batchTimers]_vars

\* C35: after the unmount of the component, in whatever state it happens,
\* no interval of the batch is left running and no further poll is issued.
C35_NoTimerAfterUnmount ==
  /\ ~batch.mounted => batchTimers = {}
  /\ [][~batch.mounted => \A t \in batchTimers' : ~BatchTick(t)]_vars

\* ------------------------------------------------- claims, the poll

C36_GetUpdatesLastAccessedOnly ==
  [][Performed("get", "put")
       => LET r == Head(queue)
          IN /\ store'[r.key].value = store[r.key].value
             /\ store'[r.key].expireTime = store[r.key].expireTime
             /\ \A k \in DOMAIN store \ {r.key} : store'[k] = store[k]
    ]_vars

\* ---------------------------------- claims, the cached wrappers: reads

\* C37: a call without forceRefresh whose get reads an entry that has not
\* expired returns the cached value and sends no request; a call with
\* forceRefresh does not read the cache and always sends the request.
C37_ForceRefresh ==
  [][/\ (/\ Performed("get", "get")
         /\ store[api.fn] # NoEntry /\ ~Expired(now, store[api.fn]))
          => (/\ api.phase = "get" /\ ~api.forceRefresh
              /\ Len(queue') = 1 /\ queue'[1].f = "get" /\ queue'[1].call = "put"
              /\ queue'[1].item.value = store[api.fn].value)
     /\ Performed("get", "put")
          => (api' = api /\ ret'.result = Head(queue).item.value)
     /\ (ApiGot /\ ret.result # Absent)
          => (/\ api'.phase = "returned" /\ api'.fromCache
              /\ api'.result = FromCache(api.fn, ret.result)
              /\ api'.requests = api.requests)
     /\ ApiCall(TRUE)
          => (/\ api'.phase = "fetch" /\ api'.requests = api.requests + 1
              /\ queue' = queue /\ store' = store)
     /\ api.forceRefresh
          => \A i \in 1..Len(queue) : queue[i].f # "get"
    ]_vars

\* The second call was served from the cache, and the third, with
\* forceRefresh, has sent the second request while the entry was there.
C37_Witness ==
  /\ api.calls = 3 /\ api.requests = 2 /\ api.forceRefresh
  /\ api.phase = "fetch"
  /\ store[api.fn] # NoEntry /\ ~Expired(now, store[api.fn])

\* ------------------------------------- claims, the tracker's callbacks

\* C38: for each job onResult is called at most once and onError at most
\* once: a response that reports SUCCESS or FAILURE of a job of which a
\* terminal snapshot has been handled already calls neither.
C38_CallbackAtMostOnce ==
  [][\A p \in BagToSet(polls) :
       (/\ p.snap.kind = "ok" /\ p.snap.status \in {"SUCCESS", "FAILURE"}
        /\ p.job \in termSeen
        /\ PollResponse(p))
         => notified' = NoCall]_vars

\* ----------------------------------------- claims, the end of the chat

\* The failures of a streamed request: fetch rejects, the status is not ok,
\* the response has no body, a read fails.
ChatFailure ==
  \/ FetchRejects
  \/ \E b \in ErrorBodies, t \in StatusTexts : ResponseNotOk(b, t)
  \/ ResponseNoBody
  \/ ChatReadFail

\* C39: chatWithAgentStream never rejects: every failure is delivered to
\* onMessage as exactly one event of type error, with which the call
\* returns, and no event is dispatched after it.
C39_FailureIsOneErrorEvent ==
  [][/\ req' \in {"none", "fetching", "reading", "returned"}
     /\ (req \in {"fetching", "reading"} /\ req' \notin {"fetching", "reading"}
         /\ ~ChatReadDone)
          => (/\ ChatFailure
              /\ req' = "returned"
              /\ nframes' = nframes + 1
              /\ hist'.err.from \in {"fetch", "http", "nobody", "read"}
              /\ mounted => chat'.content.error = hist'.err)
     /\ req = "returned" => (req' = "returned" /\ nframes' = nframes)
    ]_vars

\* A read has failed after events were dispatched, and the request has
\* returned with the error event as the last one.
C39_Witness ==
  /\ req = "returned" /\ hist.err.from = "read" /\ nframes >= 3
  /\ mounted /\ chat.content.error = hist.err

\* C40: when a streamed chat request has ended, whatever the events were,
\* no loading indicator remains on the mounted chat: isLoading is false and
\* there is no current streaming message.
C40_NoLoadingAfterEnd ==
  (req = "returned" /\ mounted)
    => (~chat.isLoading /\ ~chat.currentStreamingMessage)

====
